---- MODULE Spec2Model ----
(***************************************************************************)
(* Schema inference, relationship detection and artifact persistence of    *)
(* server/schema_generator.py, with the HTTP entry point of server/app.py. *)
(*                                                                         *)
(* Python values are tagged records [k |-> kind, v |-> payload]; a Python  *)
(* str is the tuple of its characters, a dict is the sequence of its       *)
(* <<key, value>> items in insertion order, a float is held in hundredths. *)
(***************************************************************************)
EXTENDS Integers, Sequences, FiniteSets, TLC

----------------------------------------------------------------------------
(* String literals of the program and names used in the modelled stores.   *)
S_orders == <<"o", "r", "d", "e", "r", "s">>
S_customers == <<"c", "u", "s", "t", "o", "m", "e", "r", "s">>
S_customer_id == <<"c", "u", "s", "t", "o", "m", "e", "r", "_", "i", "d">>
S_order_ids == <<"o", "r", "d", "e", "r", "_", "i", "d", "s">>
S__id == <<"_", "i", "d">>
S_status == <<"s", "t", "a", "t", "u", "s">>
S_name == <<"n", "a", "m", "e">>
S_tracking_id == <<"t", "r", "a", "c", "k", "i", "n", "g", "_", "i", "d">>
S_events == <<"e", "v", "e", "n", "t", "s">>
S_legacy == <<"l", "e", "g", "a", "c", "y">>
S_ghost == <<"g", "h", "o", "s", "t">>
S__id_ == <<"_", "i", "d", "_">>
S_type == <<"t", "y", "p", "e">>
S_description == <<"d", "e", "s", "c", "r", "i", "p", "t", "i", "o", "n">>
S_indexed == <<"i", "n", "d", "e", "x", "e", "d">>
S_unique == <<"u", "n", "i", "q", "u", "e">>
S_enum == <<"e", "n", "u", "m">>
S_example == <<"e", "x", "a", "m", "p", "l", "e">>
S_properties == <<"p", "r", "o", "p", "e", "r", "t", "i", "e", "s">>
S_items == <<"i", "t", "e", "m", "s">>
S_fields == <<"f", "i", "e", "l", "d", "s">>
S_collections == <<"c", "o", "l", "l", "e", "c", "t", "i", "o", "n", "s">>
S_relationships == <<"r", "e", "l", "a", "t", "i", "o", "n", "s", "h", "i", "p", "s">>
S_from == <<"f", "r", "o", "m">>
S_to == <<"t", "o">>
S_field == <<"f", "i", "e", "l", "d">>
S_confidence == <<"c", "o", "n", "f", "i", "d", "e", "n", "c", "e">>
S_sample_overlap == <<"s", "a", "m", "p", "l", "e", "_", "o", "v", "e", "r", "l", "a", "p">>
S_foreign_keys == <<"f", "o", "r", "e", "i", "g", "n", "_", "k", "e", "y", "s">>
S_correlations == <<"c", "o", "r", "r", "e", "l", "a", "t", "i", "o", "n", "s">>
S_links == <<"l", "i", "n", "k", "s">>
S_example_queries == <<"e", "x", "a", "m", "p", "l", "e", "_", "q", "u", "e", "r", "i", "e", "s">>
S_null == <<"n", "u", "l", "l">>
S_boolean == <<"b", "o", "o", "l", "e", "a", "n">>
S_integer == <<"i", "n", "t", "e", "g", "e", "r">>
S_number == <<"n", "u", "m", "b", "e", "r">>
S_string == <<"s", "t", "r", "i", "n", "g">>
S_date == <<"d", "a", "t", "e">>
S_array == <<"a", "r", "r", "a", "y">>
S_object == <<"o", "b", "j", "e", "c", "t">>
S_objectId == <<"o", "b", "j", "e", "c", "t", "I", "d">>
S_unknown == <<"u", "n", "k", "n", "o", "w", "n">>
S_correlation == <<"c", "o", "r", "r", "e", "l", "a", "t", "i", "o", "n">>
S_merge == <<"m", "e", "r", "g", "e">>
S_overwrite == <<"o", "v", "e", "r", "w", "r", "i", "t", "e">>
S_sample_count == <<"s", "a", "m", "p", "l", "e", "_", "c", "o", "u", "n", "t">>
S_key == <<"k", "e", "y">>
S_many_to_many == <<"m", "a", "n", "y", "-", "t", "o", "-", "m", "a", "n", "y">>
S_many_to_one == <<"m", "a", "n", "y", "-", "t", "o", "-", "o", "n", "e">>
----------------------------------------------------------------------------
(* Python values.                                                          *)
PyNone == [k |-> "null"]
PyBool(b) == [k |-> "bool", v |-> b]
PyInt(n) == [k |-> "int", v |-> n]
PyFloat(h) == [k |-> "float", v |-> h]
PyStr(s) == [k |-> "str", v |-> s]
PyList(s) == [k |-> "list", v |-> s]
PyDict(d) == [k |-> "dict", v |-> d]
ObjectId(h) == [k |-> "oid", v |-> h]
PyDatetime(t) == [k |-> "datetime", v |-> t]
PyOther == [k |-> "other"]

(* An exception leaving a call, where a value was to be returned. *)
Raised == [k |-> "raise"]

(* bool(value): Python truthiness, as used by `if x:` and `if d.get(..):`. *)
Truthy(x) ==
    CASE x.k = "null" -> FALSE
      [] x.k = "bool" -> x.v
      [] x.k \in {"int", "float"} -> x.v # 0
      [] x.k \in {"str", "list", "dict"} -> Len(x.v) > 0
      [] OTHER -> TRUE

(* dict operations on the item sequence of a dict. *)
Keys(d) == {d[i][1] : i \in DOMAIN d}
KeyList(d) == [i \in DOMAIN d |-> d[i][1]]
Has(d, key) == \E i \in DOMAIN d : d[i][1] = key
Get(d, key) == d[CHOOSE i \in DOMAIN d : d[i][1] = key][2]
GetOr(d, key, default) == IF Has(d, key) THEN Get(d, key) ELSE default
Put(d, key, value) ==
    IF Has(d, key)
    THEN [i \in DOMAIN d |-> IF d[i][1] = key THEN <<key, value>> ELSE d[i]]
    ELSE Append(d, <<key, value>>)

(* {**a, **b}: a's items in a's order with b's values, then b's new keys. *)
RECURSIVE Update(_, _)
Update(a, b) == IF b = <<>> THEN a ELSE Update(Put(a, b[1][1], b[1][2]), Tail(b))

(* Python == on values: dicts compare as mappings, whatever their order.   *)
RECURSIVE Canon(_)
Canon(x) ==
    CASE x.k = "dict" -> [k |-> "dict", v |-> [key \in Keys(x.v) |-> Canon(Get(x.v, key))]]
      [] x.k = "list" -> [k |-> "list", v |-> [i \in DOMAIN x.v |-> Canon(x.v[i])]]
      [] OTHER -> x
PyEq(a, b) == Canon(a) = Canon(b)

SeqToSet(s) == {s[i] : i \in DOMAIN s}
Min(a, b) == IF a < b THEN a ELSE b
Take(s, n) == SubSeq(s, 1, Min(n, Len(s)))

(* Body(value), the value being computed once. *)
With(value, Body(_)) == CHOOSE result \in {Body(x) : x \in {value}} : TRUE

(* The sequences of ss one after the other. *)
RECURSIVE Concat(_)
Concat(ss) ==
    IF Len(ss) = 0 THEN <<>>
    ELSE IF Len(ss) = 1 THEN ss[1]
    ELSE Concat(SubSeq(ss, 1, Len(ss) \div 2)) \o Concat(SubSeq(ss, (Len(ss) \div 2) + 1, Len(ss)))

(* The elements of s without those equal to an earlier one. *)
Distinct(s) ==
    With({i \in DOMAIN s : \A j \in 1..(i - 1) : s[j] # s[i]},
         LAMBDA firsts : [n \in 1..Cardinality(firsts) |->
                            s[CHOOSE i \in firsts : Cardinality({j \in firsts : j < i}) = n - 1]])

----------------------------------------------------------------------------
(* Field Type Analyzer.                                                    *)
Digits == {"0", "1", "2", "3", "4", "5", "6", "7", "8", "9"}

(* _is_iso_date: re.match(r'^\d{4}-\d{2}-\d{2}T\d{2}:\d{2}:\d{2}', value). *)
_is_iso_date(s) ==
    /\ Len(s) >= 19
    /\ \A i \in {1, 2, 3, 4, 6, 7, 9, 10, 12, 13, 15, 16, 18, 19} : s[i] \in Digits
    /\ s[5] = "-" /\ s[8] = "-" /\ s[11] = "T" /\ s[14] = ":" /\ s[17] = ":"

(* isinstance(value, t) for the classes _get_type tests; bool is a
   subclass of int. *)
IsInstance(value, t) ==
    CASE t = "bool" -> value.k = "bool"
      [] t = "int" -> value.k \in {"bool", "int"}
      [] t = "float" -> value.k = "float"
      [] t = "str" -> value.k = "str"
      [] t = "list" -> value.k = "list"
      [] t = "dict" -> value.k = "dict"
      [] t = "datetime" -> value.k = "datetime"

(* The chain as it would be with the test for int before the one for bool. *)
_get_type_IntBeforeBool(value) ==
    IF value.k = "null" THEN S_null
    ELSE IF IsInstance(value, "int") THEN S_integer
    ELSE IF IsInstance(value, "bool") THEN S_boolean
    ELSE IF IsInstance(value, "float") THEN S_number
    ELSE IF IsInstance(value, "str") THEN (IF _is_iso_date(value.v) THEN S_date ELSE S_string)
    ELSE IF IsInstance(value, "list") THEN S_array
    ELSE IF IsInstance(value, "dict") THEN S_object
    ELSE IF value.k = "oid" THEN S_objectId
    ELSE IF IsInstance(value, "datetime") THEN S_date
    ELSE S_unknown

(* _get_type: the isinstance chain, in the order of the source. *)
_get_type(value) ==
    IF value.k = "null" THEN S_null
    ELSE IF IsInstance(value, "bool") THEN S_boolean
    ELSE IF IsInstance(value, "int") THEN S_integer
    ELSE IF IsInstance(value, "float") THEN S_number
    ELSE IF IsInstance(value, "str") THEN (IF _is_iso_date(value.v) THEN S_date ELSE S_string)
    ELSE IF IsInstance(value, "list") THEN S_array
    ELSE IF IsInstance(value, "dict") THEN S_object
    ELSE IF value.k = "oid" THEN S_objectId
    ELSE IF IsInstance(value, "datetime") THEN S_date
    ELSE S_unknown

(* The cap on the sample values kept per field. *)
MaxStoredValues == 100

(* A fresh entry of the field_stats defaultdict; types is a Counter. *)
(* Counter(keys): <<key, count>> in the order the keys were first counted. *)
Counter(keys) ==
    With(Distinct(keys),
         LAMBDA first : [n \in DOMAIN first |->
                           <<first[n], Cardinality({i \in DOMAIN keys : keys[i] = first[n]})>>])

(* Counter.most_common(1)[0][0]: the first key, in insertion order, among
   those of maximal count. *)
MostCommon(counter) ==
    counter[CHOOSE i \in DOMAIN counter :
               /\ \A j \in DOMAIN counter : counter[j][2] <= counter[i][2]
               /\ \A j \in 1..(i - 1) : counter[j][2] < counter[i][2]][1]

(* The keys of field_stats after _collect_field_stats(doc, field_stats) was
   called for each document: the keys of the documents that are dicts, in
   the order the loops over documents and items first meet them. *)
FirstMet(documents, key) ==
    LET d == CHOOSE d \in DOMAIN documents :
                /\ documents[d].k = "dict" /\ Has(documents[d].v, key)
                /\ \A e \in 1..(d - 1) : ~(documents[e].k = "dict" /\ Has(documents[e].v, key))
    IN  <<d, CHOOSE j \in DOMAIN documents[d].v : documents[d].v[j][1] = key>>
Earlier(p, q) == p[1] < q[1] \/ (p[1] = q[1] /\ p[2] < q[2])
FieldNames(documents) ==
    With([key \in UNION {Keys(documents[i].v) : i \in {i \in DOMAIN documents : documents[i].k = "dict"}}
            |-> FirstMet(documents, key)],
         LAMBDA met : [n \in 1..Cardinality(DOMAIN met) |->
                         CHOOSE key \in DOMAIN met :
                            Cardinality({other \in DOMAIN met : Earlier(met[other], met[key])}) = n - 1])

(* field_stats[field_name] after those calls of _collect_field_stats:
   nothing is done for a document that is not a dict, nested values are
   never descended into (prefix stays ''), a None counts as null, any other
   value is counted with its type, and values keeps the first
   MaxStoredValues of those of type string, integer, boolean or array. *)
_collect_field_stats(documents, field_name) ==
    With(SelectSeq(documents, LAMBDA doc : doc.k = "dict" /\ Has(doc.v, field_name)),
         LAMBDA holders :
            With(SelectSeq([i \in DOMAIN holders |-> Get(holders[i].v, field_name)],
                           LAMBDA value : value.k # "null"),
                 LAMBDA present :
                    [types |-> Counter([i \in DOMAIN present |-> _get_type(present[i])]),
                     values |-> Take(SelectSeq(present,
                                               LAMBDA value : _get_type(value) \in
                                                  {S_string, S_integer, S_boolean, S_array}),
                                     MaxStoredValues),
                     present_count |-> Len(present),
                     null_count |-> Len(holders) - Len(present)]))

(* Characters in code-point order, for str comparison and case mapping. *)
CharOrder ==
    << " ", "'", "-", ".", "0", "1", "2", "3", "4", "5", "6", "7", "8", "9", ":",
       "A", "B", "C", "D", "E", "F", "G", "H", "I", "J", "K", "L", "M",
       "N", "O", "P", "Q", "R", "S", "T", "U", "V", "W", "X", "Y", "Z", "_",
       "a", "b", "c", "d", "e", "f", "g", "h", "i", "j", "k", "l", "m",
       "n", "o", "p", "q", "r", "s", "t", "u", "v", "w", "x", "y", "z" >>
Ord(c) == CHOOSE i \in DOMAIN CharOrder : CharOrder[i] = c
UpperCase == SubSeq(CharOrder, 16, 41)
LowerCase == SubSeq(CharOrder, 43, 68)
IsUpper(c) == \E i \in DOMAIN UpperCase : UpperCase[i] = c
IsLower(c) == \E i \in DOMAIN LowerCase : LowerCase[i] = c
ToLower(c) == IF IsUpper(c) THEN CharOrder[Ord(c) + 27] ELSE c
ToUpper(c) == IF IsLower(c) THEN CharOrder[Ord(c) - 27] ELSE c
Lower(s) == [i \in DOMAIN s |-> ToLower(s[i])]

(* str < str *)
RECURSIVE StrLess(_, _)
StrLess(a, b) ==
    IF b = <<>> THEN FALSE
    ELSE IF a = <<>> THEN TRUE
    ELSE IF a[1] = b[1] THEN StrLess(Tail(a), Tail(b))
    ELSE Ord(a[1]) < Ord(b[1])

(* int(value) of a bool or int, as < and == on them use it. *)
NumOf(x) == IF x.k = "bool" THEN (IF x.v THEN 1 ELSE 0) ELSE x.v
IsNum(x) == x.k \in {"bool", "int"}

(* a < b where Python defines it between the values a field sample holds. *)
PyLess(a, b) ==
    IF a.k = "str" /\ b.k = "str" THEN StrLess(a.v, b.v) ELSE NumOf(a) < NumOf(b)
Comparable(a, b) == (a.k = "str" /\ b.k = "str") \/ (IsNum(a) /\ IsNum(b))

(* hash/== identity of a stored value in a set: True is 1, False is 0. *)
PyKey(x) == IF x.k = "bool" THEN PyInt(NumOf(x)) ELSE x
Hashable(x) == x.k \notin {"list", "dict"}

(* set(values): the first of the values that are equal to one another is
   the element kept. *)
PySet(values) ==
    {values[i] : i \in {i \in DOMAIN values :
                          \A j \in 1..(i - 1) : PyKey(values[j]) # PyKey(values[i])}}

(* sorted(list(s)) of a set of mutually comparable values. *)
RECURSIVE Sorted(_)
Sorted(s) ==
    IF s = {} THEN <<>>
    ELSE LET m == CHOOSE x \in s : \A y \in s \ {x} : PyLess(x, y)
         IN  <<m>> \o Sorted(s \ {m})
Sortable(s) == \A x \in s : \A y \in s : Comparable(x, y)

EnumMax == 10

(* The body of the loop `for field_name, stats in field_stats.items()` of
   _analyze_fields.  raised: set(stats['values']) met an unhashable value. *)
AnalyzeField(stats, total_docs) ==
    LET primary_type == IF stats.types # <<>> THEN MostCommon(stats.types) ELSE S_unknown
        unhashable == primary_type = S_string /\ \E i \in DOMAIN stats.values : ~Hashable(stats.values[i])
        lists == SelectSeq(stats.values, LAMBDA val : val.k = "list" /\ val.v # <<>>)
        item_types == Counter([i \in DOMAIN lists |-> _get_type(lists[i].v[1])])
    IN  With(IF primary_type = S_string /\ ~unhashable THEN PySet(stats.values) ELSE {},
             LAMBDA unique_values :
                [raised |-> unhashable,
                 primary_type |-> primary_type,
                 presence_rate |-> <<stats.present_count, total_docs>>,
                 example |-> IF stats.values # <<>> THEN stats.values[1] ELSE PyNone,
                 enum_values |-> IF /\ Cardinality(unique_values) <= EnumMax
                                    /\ Cardinality(unique_values) > 1
                                 THEN unique_values ELSE {},
                 items |-> IF primary_type = S_array /\ item_types # <<>>
                           THEN PyDict(<< <<S_type, PyStr(MostCommon(item_types))>> >>)
                           ELSE PyNone])

(* _analyze_fields(documents): field name -> analysis, in the order the
   fields were first met. *)
_analyze_fields(documents) ==
    With(FieldNames(documents),
         LAMBDA names :
            [i \in DOMAIN names |->
               <<names[i],
                 With(_collect_field_stats(documents, names[i]),
                      LAMBDA stats : AnalyzeField(stats, Len(documents)))>>])

----------------------------------------------------------------------------
(* The document store.  db maps a collection name to [docs, indexes]: the
   documents in natural order (each a dict holding _id) and the index
   catalog, each entry [name, key, unique].                                *)
Collection(db, name) == IF name \in DOMAIN db THEN db[name] ELSE [docs |-> <<>>, indexes |-> <<>>]

(* collection.count_documents({}) *)
CountAll(db, name) == Len(Collection(db, name).docs)

(* Index Detector: _detect_indexes(collection). *)
RECURSIVE IndexKeys(_, _, _)
IndexKeys(key, unique, indexes) ==
    IF key = <<>> THEN indexes
    ELSE IndexKeys(Tail(key), unique, Put(indexes, key[1], PyDict(<< <<S_unique, PyBool(unique)>> >>)))
(* The loop as it would be without the skip of the default index. *)
RECURSIVE IndexLoop_NoSkip(_, _)
IndexLoop_NoSkip(infos, indexes) ==
    IF infos = <<>> THEN indexes
    ELSE IndexLoop_NoSkip(Tail(infos), IndexKeys(infos[1].key, infos[1].unique, indexes))

RECURSIVE IndexLoop(_, _)
IndexLoop(infos, indexes) ==
    IF infos = <<>> THEN indexes
    ELSE IF infos[1].name = S__id_ THEN IndexLoop(Tail(infos), indexes)
    ELSE IndexLoop(Tail(infos), IndexKeys(infos[1].key, infos[1].unique, indexes))
_detect_indexes(collection) ==
    Put(IndexLoop(collection.indexes, <<>>), S__id, PyDict(<< <<S_unique, PyBool(TRUE)>> >>))

(* _generate_field_description(field_name) *)
S_Unique_document_identifier == <<"U", "n", "i", "q", "u", "e", " ", "d", "o", "c", "u", "m", "e", "n", "t", " ", "i", "d", "e", "n", "t", "i", "f", "i", "e", "r">>
RECURSIVE SpaceCapitals(_)
SpaceCapitals(s) ==
    IF s = <<>> THEN <<>>
    ELSE (IF IsUpper(s[1]) THEN <<" ", s[1]>> ELSE <<s[1]>>) \o SpaceCapitals(Tail(s))
RECURSIVE LStrip(_)
LStrip(s) == IF s # <<>> /\ s[1] = " " THEN LStrip(Tail(s)) ELSE s
RECURSIVE RStrip(_)
RStrip(s) == IF s # <<>> /\ s[Len(s)] = " " THEN RStrip(SubSeq(s, 1, Len(s) - 1)) ELSE s
Capitalize(s) == [i \in DOMAIN s |-> IF i = 1 THEN ToUpper(s[i]) ELSE ToLower(s[i])]
_generate_field_description(field_name) ==
    IF field_name = S__id THEN S_Unique_document_identifier
    ELSE LET spaced == SpaceCapitals(field_name)
             words == [i \in DOMAIN spaced |-> IF spaced[i] = "_" THEN " " ELSE spaced[i]]
         IN  Capitalize(RStrip(LStrip(words)))

(* The field_def built for one field in analyze_collection. *)
FieldDef(field_name, analysis, indexes) ==
    LET base == << <<S_type, PyStr(analysis.primary_type)>>,
                   <<S_description, PyStr(_generate_field_description(field_name))>> >>
        idx == IF Has(indexes, field_name)
               THEN << <<S_indexed, PyBool(TRUE)>> >> \o
                    (IF Truthy(GetOr(Get(indexes, field_name).v, S_unique, PyNone))
                     THEN << <<S_unique, PyBool(TRUE)>> >> ELSE <<>>)
               ELSE <<>>
        enum == IF analysis.enum_values # {}
                THEN << <<S_enum, PyList(Sorted(analysis.enum_values))>> >> ELSE <<>>
        example == IF Truthy(analysis.example)
                   THEN << <<S_example, analysis.example>> >> ELSE <<>>
        items == IF analysis.primary_type = S_array /\ Truthy(analysis.items)
                 THEN << <<S_items, analysis.items>> >> ELSE <<>>
    IN  PyDict(base \o idx \o enum \o example \o items)

S_empty_suffix == <<" ", "(", "e", "m", "p", "t", "y", ")">>
S_Collection_ == <<"C", "o", "l", "l", "e", "c", "t", "i", "o", "n", " ">>
S_Auto_generated_schema_for_ == <<"A", "u", "t", "o", "-", "g", "e", "n", "e", "r", "a", "t", "e", "d", " ", "s", "c", "h", "e", "m", "a", " ", "f", "o", "r", " ">>
S__collection == <<" ", "c", "o", "l", "l", "e", "c", "t", "i", "o", "n">>

(* The sample size as it would be were the requested size reported. *)
ActualSampleSize_Requested(sample_size, total_docs) == sample_size

(* actual_sample_size = min(sample_size, total_docs) *)
ActualSampleSize(sample_size, total_docs) == Min(sample_size, total_docs)

(* {'$sample': {'size': n}}: the store rejects a negative size. *)
SampleRaises(n) == n < 0

(* The store calls analyze_collection issues, in order: the count, and for
   a collection that is not empty the sample and then the index catalog. *)
StoreCalls(total_docs, actual_sample_size) ==
    IF total_docs = 0 THEN <<"count_documents">>
    ELSE IF SampleRaises(actual_sample_size) THEN <<"count_documents", "aggregate">>
    ELSE <<"count_documents", "aggregate", "list_indexes">>

(* What analyze_collection returns, once the fields are analysed and the
   indexes read. *)
AnalysisOf(db, collection_name, sample_size, field_analysis, indexes) ==
    LET total_docs == CountAll(db, collection_name)
        actual_sample_size == ActualSampleSize(sample_size, total_docs)
        raised == \E i \in DOMAIN field_analysis :
                     \/ field_analysis[i][2].raised
                     \/ ~Sortable(field_analysis[i][2].enum_values)
        fields == [i \in DOMAIN field_analysis |->
                     <<field_analysis[i][1],
                       FieldDef(field_analysis[i][1], field_analysis[i][2], indexes)>>]
    IN  IF total_docs = 0
        THEN [raised |-> FALSE,
              collection |-> collection_name,
              description |-> S_Collection_ \o collection_name \o S_empty_suffix,
              fields |-> PyDict(<<>>),
              indexes |-> <<>>,
              total_documents |-> 0,
              sampled_documents |-> 0]
        ELSE IF raised THEN [raised |-> TRUE]
        ELSE [raised |-> FALSE,
              collection |-> collection_name,
              description |-> S_Auto_generated_schema_for_ \o collection_name \o S__collection,
              fields |-> PyDict(fields),
              indexes |-> KeyList(indexes),
              total_documents |-> total_docs,
              sampled_documents |-> actual_sample_size]

(* analyze_collection(collection_name, sample_size), given the documents
   the store's $sample stage returned.  raised: an exception left it.      *)
analyze_collection(db, collection_name, sample_size, documents) ==
    With(<<_analyze_fields(documents), _detect_indexes(Collection(db, collection_name))>>,
         LAMBDA analysed : AnalysisOf(db, collection_name, sample_size, analysed[1], analysed[2]))

----------------------------------------------------------------------------
(* round(m / n, 2) of the float quotient, in hundredths.  A quotient that
   lies exactly between two hundredths is rounded to the even one when it
   is a binary fraction; otherwise the double nearest to it lies above or
   below the midpoint, and TiesRoundedUp40 lists the numerators p of the
   fractions p/40 (the only such ties for n <= 80) whose double lies above. *)
RECURSIVE GCD(_, _)
GCD(a, b) == IF b = 0 THEN a ELSE GCD(b, a % b)
IsPowerOfTwo(q) == q \in {1, 2, 4, 8, 16, 32, 64}
TiesRoundedUp40 == {1, 9, 11, 13, 21, 27, 31, 37, 47, 49, 57, 59, 67, 69, 77, 79, 83, 89, 93, 99, 103, 109, 113, 119, 123, 129, 133, 139, 143, 149, 153, 159}
Round2(m, n) ==
    LET q == (100 * m) \div n
        r == (100 * m) % n
        g == GCD(m, n)
    IN  IF 2 * r < n THEN q
        ELSE IF 2 * r > n THEN q + 1
        ELSE IF IsPowerOfTwo(n \div g) THEN (IF q % 2 = 0 THEN q ELSE q + 1)
        ELSE CASE n \div g = 40 /\ m \div g <= 160 ->
                    IF (m \div g) \in TiesRoundedUp40 THEN q + 1 ELSE q

(* str(n) of a natural number *)
DigitChars == <<"0", "1", "2", "3", "4", "5", "6", "7", "8", "9">>
RECURSIVE IntToStr(_)
IntToStr(n) == IF n < 10 THEN <<DigitChars[n + 1]>> ELSE IntToStr(n \div 10) \o <<DigitChars[(n % 10) + 1]>>

----------------------------------------------------------------------------
(* Store queries used by the detectors.                                    *)

(* {field: {'$ne': None, '$exists': True}} *)
MatchesNotNull(doc, field_name) ==
    /\ Has(doc.v, field_name)
    /\ LET x == Get(doc.v, field_name)
       IN  /\ x.k # "null"
           /\ x.k = "list" => \A i \in DOMAIN x.v : x.v[i].k # "null"

(* aggregate([{'$match': ...}, {'$limit': limit}, {'$project': {field: 1}}]) *)
Project(doc, field_name) ==
    PyDict(SelectSeq(doc.v, LAMBDA item : item[1] \in {S__id, field_name}))
AggregateNotNull(collection, field_name, limit) ==
    With(Take(SelectSeq(collection.docs, LAMBDA doc : MatchesNotNull(doc, field_name)), limit),
         LAMBDA limited : [i \in DOMAIN limited |-> Project(limited[i], field_name)])

(* The store's equality of two values: numbers compare by value. *)
IsNumber(x) == x.k \in {"int", "float"}
Hundredths(x) == IF x.k = "int" THEN 100 * x.v ELSE x.v
MongoEq(a, b) ==
    IF IsNumber(a) /\ IsNumber(b) THEN Hundredths(a) = Hundredths(b) ELSE a = b

(* {field: {'$in': values}} on one document: the field's value, or an
   element of it when it is an array, equals one of the values. *)
MatchesIn(doc, field_name, values) ==
    /\ Has(doc.v, field_name)
    /\ LET x == Get(doc.v, field_name)
       IN  \E j \in DOMAIN values :
              \/ MongoEq(x, values[j])
              \/ x.k = "list" /\ \E i \in DOMAIN x.v : MongoEq(x.v[i], values[j])

(* collection.count_documents({field: {'$in': values}}) *)
CountIn(collection, field_name, values) ==
    Cardinality({i \in DOMAIN collection.docs : MatchesIn(collection.docs[i], field_name, values)})

(* Whether the driver can encode the value into a query. *)
RECURSIVE Encodable(_)
Encodable(x) ==
    CASE x.k = "other" -> FALSE
      [] x.k = "list" -> \A i \in DOMAIN x.v : Encodable(x.v[i])
      [] x.k = "dict" -> \A i \in DOMAIN x.v : Encodable(x.v[i][2])
      [] OTHER -> TRUE

----------------------------------------------------------------------------
(* Relationship Detector.                                                  *)
EndsWith(s, suffix) ==
    Len(s) >= Len(suffix) /\ SubSeq(s, Len(s) - Len(suffix) + 1, Len(s)) = suffix
DropLast(s, n) == SubSeq(s, 1, Len(s) - n)
S__ids == <<"_", "i", "d", "s">>
S__ref == <<"_", "r", "e", "f">>
S__key == <<"_", "k", "e", "y">>
S_s == <<"s">>
S_es == <<"e", "s">>
FkSuffixes == <<S__id, S__ids, S__ref, S__key>>

(* The test as it would be without re.IGNORECASE. *)
_is_potential_foreign_key_CaseSensitive(field_name) ==
    \E i \in DOMAIN FkSuffixes : EndsWith(field_name, FkSuffixes[i])

(* _is_potential_foreign_key: re.match(r'.*_id$' ..., re.IGNORECASE) *)
_is_potential_foreign_key(field_name) ==
    \E i \in DOMAIN FkSuffixes : EndsWith(Lower(field_name), FkSuffixes[i])

(* re.sub(r'_(id|ids|ref|key)$', '', field_name, flags=re.IGNORECASE) *)
StripFkSuffix(field_name) ==
    IF \E i \in DOMAIN FkSuffixes : EndsWith(Lower(field_name), FkSuffixes[i])
    THEN DropLast(field_name,
                  Len(FkSuffixes[CHOOSE i \in DOMAIN FkSuffixes : EndsWith(Lower(field_name), FkSuffixes[i])]))
    ELSE field_name

(* _find_target_collection: the first candidate that is a collection name,
   <<>> standing for None. *)
_find_target_collection(field_name, collection_names) ==
    LET base_name == StripFkSuffix(field_name)
        candidates == << base_name,
                         base_name \o S_s,
                         IF EndsWith(base_name, S_s) THEN DropLast(base_name, 1) ELSE <<>>,
                         base_name \o S_es,
                         IF EndsWith(base_name, S_es) THEN DropLast(base_name, 2) ELSE <<>> >>
        hits == {i \in DOMAIN candidates : candidates[i] # <<>> /\ candidates[i] \in collection_names}
    IN  IF hits = {} THEN <<>>
        ELSE candidates[CHOOSE i \in hits : \A j \in hits : i <= j]

HexDigits == Digits \cup {"a", "b", "c", "d", "e", "f", "A", "B", "C", "D", "E", "F"}
ObjectIdLength == 24
SourceLimit == 50
CheckLimit == 20

(* The loop that builds check_values_converted: ObjectId(val) for a str of
   length 24, val itself when ObjectId() rejects it. *)
ConvertId(val) ==
    IF val.k = "str" /\ Len(val.v) = ObjectIdLength
    THEN IF \A i \in DOMAIN val.v : val.v[i] \in HexDigits THEN ObjectId(Lower(val.v)) ELSE val
    ELSE val

(* The loop that builds fk_values from sample_docs. *)
FkValues(sample_docs, field_name, is_array) ==
    Concat([i \in DOMAIN sample_docs |->
              LET value == GetOr(sample_docs[i].v, field_name, PyNone)
              IN  IF value.k = "null" THEN <<>>
                  ELSE IF is_array /\ value.k = "list" THEN value.v
                  ELSE <<value>>])

(* matches = target_coll.count_documents({'_id': {'$in': values}}) *)
CountMatches(target_coll, values) == CountIn(target_coll, S__id, values)

S_references == <<" ", "r", "e", "f", "e", "r", "e", "n", "c", "e", "s", " ">>
S_via == <<" ", "v", "i", "a", " ">>

(* `if confidence > 0.8`, confidence being matches / len(check_values) *)
ConfidenceAboveThreshold_AtLeast(matches, checked) == 5 * matches >= 4 * checked
ConfidenceAboveThreshold(matches, checked) == 5 * matches > 4 * checked

(* The except clause of _validate_relationship: the error is printed and
   None returned. *)
ValidationExcept_Propagates == Raised
ValidationExcept == PyNone

(* The type as it would be were the array case left out. *)
RelType_ManyToOne(is_array) == S_many_to_one

(* rel_type = 'many-to-many' if is_array else 'many-to-one' *)
RelType(is_array) == IF is_array THEN S_many_to_many ELSE S_many_to_one

(* _validate_relationship.  store_error: a store call of this validation
   raises.  The result is the relationship dict, or PyNone. *)
Relationship(source_collection, field_name, target_collection, is_array, matches, checked) ==
    PyDict(<< <<S_from, PyStr(source_collection)>>,
              <<S_to, PyStr(target_collection)>>,
              <<S_type, PyStr(RelType(is_array))>>,
              <<S_field, PyStr(field_name)>>,
              <<S_description, PyStr(source_collection \o S_references \o target_collection
                                     \o S_via \o field_name)>>,
              <<S_confidence, PyFloat(Round2(matches, checked))>> >>)
CheckValues(db, source_collection, field_name, target_collection, is_array, fk_values) ==
    With([i \in DOMAIN Take(fk_values, CheckLimit) |-> ConvertId(fk_values[i])],
         LAMBDA check_values_converted :
            IF \E i \in DOMAIN check_values_converted : ~Encodable(check_values_converted[i])
            THEN ValidationExcept
            ELSE With(CountMatches(Collection(db, target_collection), check_values_converted),
                      LAMBDA matches :
                         IF ConfidenceAboveThreshold(matches, Len(check_values_converted))
                         THEN Relationship(source_collection, field_name, target_collection,
                                           is_array, matches, Len(check_values_converted))
                         ELSE PyNone))
_validate_relationship(db, source_collection, field_name, target_collection, field_info, store_error) ==
    IF store_error THEN ValidationExcept
    ELSE With(AggregateNotNull(Collection(db, source_collection), field_name, SourceLimit),
              LAMBDA sample_docs :
                 IF sample_docs = <<>> THEN PyNone
                 ELSE With(FkValues(sample_docs, field_name,
                                    GetOr(field_info.v, S_type, PyNone) = PyStr(S_array)),
                           LAMBDA fk_values :
                              IF fk_values = <<>> THEN PyNone
                              ELSE CheckValues(db, source_collection, field_name, target_collection,
                                               GetOr(field_info.v, S_type, PyNone) = PyStr(S_array),
                                               fk_values)))

----------------------------------------------------------------------------
(* Correlation Detector.                                                   *)
S_tracking == <<"t", "r", "a", "c", "k", "i", "n", "g">>
CorrelationLimit == 20
Contains(s, sub) ==
    \E i \in 1..(Len(s) - Len(sub) + 1) : SubSeq(s, i, i + Len(sub) - 1) = sub

(* The condition under which _detect_correlation_fields records a field. *)
IsCorrelationField(field_name, field_info) ==
    /\ field_name # S__id
    /\ GetOr(field_info.v, S_type, PyNone) = PyStr(S_string)
    /\ Truthy(GetOr(field_info.v, S_indexed, PyNone))
    /\ \/ Contains(Lower(field_name), S_tracking)
       \/ Contains(Lower(field_name), S_correlation)
       \/ EndsWith(field_name, S__id)

(* _validate_correlation_field.  PyNone, or [confidence, sample_count]. *)
RECURSIVE SumMatches(_, _, _, _)
SumMatches(db, others, field_name, sample_values) ==
    IF others = <<>> THEN 0
    ELSE CountIn(Collection(db, others[1]), field_name, sample_values)
         + SumMatches(db, Tail(others), field_name, sample_values)
(* The except clause of _validate_correlation_field. *)
CorrelationExcept == PyNone
Overlap(db, field_name, others, sample_values) ==
    IF \E i \in DOMAIN sample_values : ~Encodable(sample_values[i]) THEN CorrelationExcept
    ELSE IF Len(others) * Len(sample_values) = 0 THEN PyNone
    ELSE With(SumMatches(db, others, field_name, sample_values),
              LAMBDA total_matches :
                 PyDict(<< <<S_confidence,
                             PyFloat(Round2(total_matches, Len(others) * Len(sample_values)))>>,
                           <<S_sample_count, PyInt(total_matches)>> >>))
_validate_correlation_field(db, field_name, collection_list, store_error) ==
    IF store_error THEN CorrelationExcept
    ELSE With(AggregateNotNull(Collection(db, collection_list[1]), field_name, CorrelationLimit),
              LAMBDA sample_docs :
                 IF sample_docs = <<>> THEN PyNone
                 ELSE With([i \in DOMAIN sample_docs |-> Get(sample_docs[i].v, field_name)],
                           LAMBDA sample_values :
                              Overlap(db, field_name, Tail(collection_list), sample_values)))

----------------------------------------------------------------------------
(* detect_relationships and what it calls.  collections_data is the dict
   collection name -> analysis, <<name, analysis>> items in request order. *)

(* Every <<collection, field name, field_info>> of collections_data, in the
   order the nested loops over collections and fields visit them. *)
AllFields(collections_data) ==
    Concat([c \in DOMAIN collections_data |->
              LET fields == collections_data[c][2].fields.v
              IN  [f \in DOMAIN fields |-> <<collections_data[c][1], fields[f][1], fields[f][2]>>]])

(* Phase 1 candidates: the fields for which _validate_relationship is
   called, each with the target found for it. *)
FkCandidates(collections_data) ==
    LET collection_names == Keys(collections_data)
        all == AllFields(collections_data)
        withTarget == [i \in DOMAIN all |->
                         [source |-> all[i][1], field |-> all[i][2], info |-> all[i][3],
                          target |-> _find_target_collection(all[i][2], collection_names)]]
    IN  SelectSeq(withTarget, LAMBDA c : _is_potential_foreign_key(c.field) /\ c.target # <<>>)

(* Phase 1 of detect_relationships.  fk_errors: the <<source, field>> pairs
   whose validation meets a store error.  The relationships found, or
   Raised when a validation let an exception out. *)
ForeignKeyRelationships(db, collections_data, fk_errors) ==
    With(FkCandidates(collections_data),
         LAMBDA cands :
            With([i \in DOMAIN cands |->
                    _validate_relationship(db, cands[i].source, cands[i].field, cands[i].target,
                                           cands[i].info, <<cands[i].source, cands[i].field>> \in fk_errors)],
                 LAMBDA results :
                    IF \E i \in DOMAIN results : results[i] = Raised THEN Raised
                    ELSE PyList(SelectSeq(results, LAMBDA r : Truthy(r)))))

(* field_to_collections of _detect_correlation_fields: field name -> list
   of collections, both in first-met order. *)
RECURSIVE FieldToCollections(_, _)
FieldToCollections(all, acc) ==
    IF all = <<>> THEN acc
    ELSE FieldToCollections(Tail(all),
            IF IsCorrelationField(all[1][2], all[1][3])
            THEN Put(acc, all[1][2], Append(GetOr(acc, all[1][2], <<>>), all[1][1]))
            ELSE acc)

S_Collections_linked_via_shared_ == <<"C", "o", "l", "l", "e", "c", "t", "i", "o", "n", "s", " ", "l", "i", "n", "k", "e", "d", " ", "v", "i", "a", " ", "s", "h", "a", "r", "e", "d", " ">>
S__field == <<" ", "f", "i", "e", "l", "d">>

(* _detect_correlation_fields.  corr_errors: the field names whose
   validation meets a store error. *)
CorrelationOf(db, field_name, collection_list, store_error) ==
    With(_validate_correlation_field(db, field_name, collection_list, store_error),
         LAMBDA overlap :
            IF overlap = Raised THEN Raised
            ELSE IF Truthy(overlap) /\ Get(overlap.v, S_confidence).v > 50
            THEN PyDict(<< <<S_type, PyStr(S_correlation)>>,
                           <<S_field, PyStr(field_name)>>,
                           <<S_collections, PyList([i \in DOMAIN collection_list |-> PyStr(collection_list[i])])>>,
                           <<S_description, PyStr(S_Collections_linked_via_shared_ \o field_name \o S__field)>>,
                           <<S_confidence, Get(overlap.v, S_confidence)>>,
                           <<S_sample_overlap, Get(overlap.v, S_sample_count)>> >>)
            ELSE PyNone)
_detect_correlation_fields(db, collections_data, corr_errors) ==
    With(SelectSeq(FieldToCollections(AllFields(collections_data), <<>>),
                   LAMBDA item : Len(item[2]) >= 2),
         LAMBDA shared :
            With([i \in DOMAIN shared |->
                    CorrelationOf(db, shared[i][1], shared[i][2], shared[i][1] \in corr_errors)],
                 LAMBDA results :
                    IF \E i \in DOMAIN results : results[i] = Raised THEN Raised
                    ELSE PyList(SelectSeq(results, LAMBDA r : Truthy(r)))))

(* ', '.join(names) *)
RECURSIVE Join(_)
Join(names) ==
    IF names = <<>> THEN <<>>
    ELSE IF Len(names) = 1 THEN names[1]
    ELSE names[1] \o <<",", " ">> \o Join(Tail(names))

(* The two example queries appended for one foreign-key relationship. *)
FkExamples(rel) ==
    LET from_coll == GetOr(rel.v, S_from, PyNone)
        to_coll == GetOr(rel.v, S_to, PyNone)
        field == GetOr(rel.v, S_field, PyNone)
    IN  IF Truthy(from_coll) /\ Truthy(to_coll) /\ Truthy(field)
        THEN << PyStr(<<"F", "i", "n", "d", " ">> \o from_coll.v \o <<" ", "b", "y", " ">> \o to_coll.v \o <<":", " ", "d", "b", ".">> \o from_coll.v
                      \o <<".", "f", "i", "n", "d", "(", "{">> \o field.v \o <<":", " ", "'", "<", "i", "d", ">", "'", "}", ")">>),
                PyStr(<<"J", "o", "i", "n", " ">> \o from_coll.v \o <<" ", "w", "i", "t", "h", " ">> \o to_coll.v \o <<":", " ", "d", "b", ".">> \o from_coll.v
                      \o <<".", "a", "g", "g", "r", "e", "g", "a", "t", "e", "(", "[", "{", "$", "l", "o", "o", "k", "u", "p", ":", " ", "{", "f", "r", "o", "m", ":", " ", "'">> \o to_coll.v
                      \o <<"'", ",", " ", "l", "o", "c", "a", "l", "F", "i", "e", "l", "d", ":", " ", "'">> \o field.v
                      \o <<"'", ",", " ", "f", "o", "r", "e", "i", "g", "n", "F", "i", "e", "l", "d", ":", " ", "'", "_", "i", "d", "'", ",", " ", "a", "s", ":", " ", "'">> \o to_coll.v \o <<"_", "d", "a", "t", "a", "'", "}", "}", "]", ")">>) >>
        ELSE <<>>

(* The two example queries appended for one correlation. *)
CorrelationExamples(rel) ==
    LET field == GetOr(rel.v, S_field, PyNone)
        collections == GetOr(rel.v, S_collections, PyList(<<>>))
        names == [i \in DOMAIN collections.v |-> collections.v[i].v]
    IN  IF Truthy(field) /\ Len(collections.v) >= 2
        THEN << PyStr(<<"F", "i", "n", "d", " ", "r", "e", "l", "a", "t", "e", "d", " ", "r", "e", "c", "o", "r", "d", "s", " ", "v", "i", "a", " ">> \o field.v \o <<":", " ", "d", "b", ".">> \o names[1]
                      \o <<".", "f", "i", "n", "d", "(", "{">> \o field.v \o <<":", " ", "'", "<", "v", "a", "l", "u", "e", ">", "'", "}", ")">>),
                PyStr(<<"C", "o", "r", "r", "e", "l", "a", "t", "e", " ">> \o Join(names) \o <<" ", "v", "i", "a", " ">> \o field.v \o <<":", " ", "U", "s", "e", " ">> \o field.v
                      \o <<" ", "t", "o", " ", "l", "i", "n", "k", " ", "r", "e", "c", "o", "r", "d", "s", " ", "a", "c", "r", "o", "s", "s", " ", "c", "o", "l", "l", "e", "c", "t", "i", "o", "n", "s">>) >>
        ELSE <<>>

ExampleLimit == 2
S_Detected_ == <<"D", "e", "t", "e", "c", "t", "e", "d", " ">>
S__relationships_between_collections == <<" ", "r", "e", "l", "a", "t", "i", "o", "n", "s", "h", "i", "p", "(", "s", ")", " ", "b", "e", "t", "w", "e", "e", "n", " ", "c", "o", "l", "l", "e", "c", "t", "i", "o", "n", "s">>
S_No_relationships_detected == <<"N", "o", " ", "r", "e", "l", "a", "t", "i", "o", "n", "s", "h", "i", "p", "s", " ", "d", "e", "t", "e", "c", "t", "e", "d", " ", "b", "e", "t", "w", "e", "e", "n", " ", "c", "o", "l", "l", "e", "c", "t", "i", "o", "n", "s">>

(* _build_relationships_section(relationships) *)
IsCorrelation(rel) == GetOr(rel.v, S_type, PyNone) = PyStr(S_correlation)
_build_relationships_section(relationships) ==
    LET fk_relationships == SelectSeq(relationships, LAMBDA r : ~IsCorrelation(r))
        correlation_relationships == SelectSeq(relationships, LAMBDA r : IsCorrelation(r))
        fk_first == Take(fk_relationships, ExampleLimit)
        corr_first == Take(correlation_relationships, ExampleLimit)
        example_queries == Concat([i \in DOMAIN fk_first |-> FkExamples(fk_first[i])])
                           \o Concat([i \in DOMAIN corr_first |-> CorrelationExamples(corr_first[i])])
    IN  PyDict(<< <<S_description, PyStr(S_Detected_ \o IntToStr(Len(relationships))
                                         \o S__relationships_between_collections)>>,
                  <<S_foreign_keys, PyList(fk_relationships)>>,
                  <<S_correlations, PyList(correlation_relationships)>>,
                  <<S_links, PyList(relationships)>>,
                  <<S_example_queries, PyList(example_queries)>> >>)

(* detect_relationships(collections_data) *)
detect_relationships(db, collections_data, fk_errors, corr_errors) ==
    With(<<ForeignKeyRelationships(db, collections_data, fk_errors),
           _detect_correlation_fields(db, collections_data, corr_errors)>>,
         LAMBDA found :
            IF found[1] = Raised \/ found[2] = Raised THEN Raised
            ELSE With(found[1].v \o found[2].v,
                      LAMBDA relationships :
                         IF relationships # <<>>
                         THEN _build_relationships_section(relationships)
                         ELSE PyDict(<< <<S_description, PyStr(S_No_relationships_detected)>>,
                                        <<S_links, PyList(<<>>)>> >>)))

----------------------------------------------------------------------------
(* Schema Merger & Persistence.  The artifact file is [kind |-> "missing"],
   [kind |-> "garbage"] (text that json.load rejects) or
   [kind |-> "json", root |-> value].                                      *)
NoFile == [kind |-> "missing"]
Garbage == [kind |-> "garbage"]
JsonFile(root) == [kind |-> "json", root |-> root]

(* Whether json.dump accepts the value. *)
RECURSIVE Serializable(_)
Serializable(x) ==
    CASE x.k \in {"oid", "datetime", "other"} -> FALSE
      [] x.k = "list" -> \A i \in DOMAIN x.v : Serializable(x.v[i])
      [] x.k = "dict" -> \A i \in DOMAIN x.v : Serializable(x.v[i][2])
      [] OTHER -> TRUE

(* `key in container` for a str key; raises is TRUE where Python raises. *)
InRaises(container) == container.k \notin {"dict", "list", "str"}
In(key, container) ==
    CASE container.k = "dict" -> Has(container.v, key)
      [] container.k = "list" -> \E i \in DOMAIN container.v : container.v[i] = PyStr(key)
      [] container.k = "str" -> Contains(container.v, key)

(* The iteration as it would be if the new definitions took precedence. *)
MergeOne_NewWins(coll_name, new_schema, existing_collections) ==
    IF InRaises(existing_collections) THEN [raised |-> TRUE, schema |-> new_schema]
    ELSE IF ~In(coll_name, existing_collections) THEN [raised |-> FALSE, schema |-> new_schema]
    ELSE IF existing_collections.k # "dict" THEN [raised |-> TRUE, schema |-> new_schema]
    ELSE LET existing_schema == Get(existing_collections.v, coll_name)
             existing_fields == IF existing_schema.k = "dict"
                                THEN GetOr(existing_schema.v, S_fields, PyDict(<<>>)) ELSE PyNone
             new_fields == GetOr(new_schema.v, S_fields, PyDict(<<>>))
         IN  IF existing_schema.k # "dict" \/ existing_fields.k # "dict"
             THEN [raised |-> TRUE, schema |-> new_schema]
             ELSE [raised |-> FALSE,
                   schema |-> PyDict(Put(new_schema.v, S_fields,
                                         PyDict(Update(existing_fields.v, new_fields.v))))]

(* One iteration of `for coll_name, new_schema in new_schemas.items()`:
   [raised, schema], schema being new_schema after the iteration. *)
MergeOne(coll_name, new_schema, existing_collections) ==
    IF InRaises(existing_collections) THEN [raised |-> TRUE, schema |-> new_schema]
    ELSE IF ~In(coll_name, existing_collections) THEN [raised |-> FALSE, schema |-> new_schema]
    ELSE IF existing_collections.k # "dict" THEN [raised |-> TRUE, schema |-> new_schema]
    ELSE LET existing_schema == Get(existing_collections.v, coll_name)
             existing_fields == IF existing_schema.k = "dict"
                                THEN GetOr(existing_schema.v, S_fields, PyDict(<<>>)) ELSE PyNone
             new_fields == GetOr(new_schema.v, S_fields, PyDict(<<>>))
         IN  IF existing_schema.k # "dict" \/ existing_fields.k # "dict"
             THEN [raised |-> TRUE, schema |-> new_schema]
             ELSE [raised |-> FALSE,
                   schema |-> PyDict(Put(new_schema.v, S_fields,
                                         PyDict(Update(new_fields.v, existing_fields.v))))]

(* The loop: new_schemas with the iterations done up to the first that
   raises, and whether one raised. *)
RECURSIVE MergeLoop(_, _, _)
MergeLoop(new_schemas, i, existing_collections) ==
    IF i > Len(new_schemas) THEN [raised |-> FALSE, new_schemas |-> new_schemas]
    ELSE LET one == MergeOne(new_schemas[i][1], new_schemas[i][2], existing_collections)
         IN  IF one.raised THEN [raised |-> TRUE, new_schemas |-> new_schemas]
             ELSE MergeLoop([new_schemas EXCEPT ![i] = <<new_schemas[i][1], one.schema>>],
                            i + 1, existing_collections)

(* The merge as it would be if the artifact were not consulted. *)
_merge_with_existing_schemas_FreshOnly(new_schemas, file) == new_schemas

(* _merge_with_existing_schemas(new_schemas), reading the artifact file. *)
_merge_with_existing_schemas(new_schemas, file) ==
    IF file.kind = "missing" THEN new_schemas
    ELSE IF file.kind = "garbage" THEN new_schemas
    ELSE IF file.root.k # "dict" THEN new_schemas
    ELSE LET existing_collections == GetOr(file.root.v, S_collections, PyDict(<<>>))
             loop == MergeLoop(new_schemas.v, 1, existing_collections)
         IN  IF loop.raised \/ existing_collections.k # "dict"
             THEN PyDict(loop.new_schemas)
             ELSE PyDict(Update(existing_collections.v, loop.new_schemas))

(* _save_schemas(schemas): open(path, 'w') empties the file and json.dump
   writes into it; raised when json.dump rejects a value. *)
_save_schemas(schemas) ==
    IF Serializable(schemas)
    THEN [raised |-> FALSE, file |-> JsonFile(schemas)]
    ELSE [raised |-> TRUE, file |-> Garbage]

S_Auto_generated_schemas_for_ == <<"A", "u", "t", "o", "-", "g", "e", "n", "e", "r", "a", "t", "e", "d", " ", "s", "c", "h", "e", "m", "a", "s", " ", "f", "o", "r", " ">>
S__collections_suffix == <<" ", "c", "o", "l", "l", "e", "c", "t", "i", "o", "n", "(", "s", ")">>

(* schemas as built from collections_data in generate_schemas *)
BuildSchemas(collections_data) ==
    PyDict([i \in DOMAIN collections_data |->
              <<collections_data[i][1],
                PyDict(<< <<S_description, PyStr(collections_data[i][2].description)>>,
                          <<S_fields, collections_data[i][2].fields>> >>)>>])

(* final_schema of generate_schemas *)
FinalSchema(collection_names, schemas, relationships) ==
    PyDict(<< <<S_description, PyStr(S_Auto_generated_schemas_for_ \o IntToStr(Len(collection_names))
                                     \o S__collections_suffix)>>,
              <<S_collections, schemas>> >>
           \o (IF Truthy(relationships) THEN << <<S_relationships, relationships>> >> ELSE <<>>))

(* total_fields = sum(len(s['fields']) for s in schemas.values()) *)
HasLen(x) == x.k \in {"dict", "list", "str"}
TotalFieldsRaises(schemas) ==
    \E i \in DOMAIN schemas.v :
       LET s == schemas.v[i][2]
       IN  \/ s.k # "dict"
           \/ ~Has(s.v, S_fields)
           \/ ~HasLen(Get(s.v, S_fields))
RECURSIVE SumLen(_)
SumLen(items) ==
    IF items = <<>> THEN 0 ELSE Len(Get(items[1][2].v, S_fields).v) + SumLen(Tail(items))
TotalFields(schemas) == SumLen(schemas.v)

(* The dict generate_schemas returns. *)
GenerateResult(collection_names, schemas, relationships) ==
    [success |-> TRUE,
     generated_schemas |-> schemas,
     relationships |-> relationships,
     stats |-> [collections_analyzed |-> Len(collection_names),
                relationships_found |-> IF Truthy(relationships)
                                        THEN Len(GetOr(relationships.v, S_links, PyList(<<>>)).v)
                                        ELSE 0,
                total_fields |-> TotalFields(schemas)]]

----------------------------------------------------------------------------
(* Schema Loader (schema_loader.py).  schemas maps a collection name to
   [collection, description, fields, indexes].                             *)
S_collection == <<"c", "o", "l", "l", "e", "c", "t", "i", "o", "n">>
S_indexes == <<"i", "n", "d", "e", "x", "e", "s">>

(* _extract_indexes(fields); Raised where .items() or .get() is called on a
   value that is no dict. *)
_extract_indexes(fields) ==
    IF fields.k # "dict" THEN Raised
    ELSE IF \E i \in DOMAIN fields.v : fields.v[i][2].k # "dict" THEN Raised
    ELSE PyList([n \in DOMAIN SelectSeq(fields.v, LAMBDA item : Truthy(GetOr(item[2].v, S_indexed, PyNone))) |->
                   LET item == SelectSeq(fields.v, LAMBDA it : Truthy(GetOr(it[2].v, S_indexed, PyNone)))[n]
                   IN  PyDict(<< <<S_field, PyStr(item[1])>>,
                                 <<S_unique, GetOr(item[2].v, S_unique, PyBool(FALSE))>> >>)])

(* The schema load_schemas builds for one entry of data['collections']. *)
LoadEntry(collection_name, collection_schema) ==
    IF collection_schema.k # "dict" THEN Raised
    ELSE With(_extract_indexes(GetOr(collection_schema.v, S_fields, PyDict(<<>>))),
              LAMBDA indexes :
                 IF indexes = Raised THEN Raised
                 ELSE PyDict(<< <<S_collection, PyStr(collection_name)>>,
                                <<S_description, GetOr(collection_schema.v, S_description, PyStr(<<>>))>>,
                                <<S_fields, GetOr(collection_schema.v, S_fields, PyDict(<<>>))>>,
                                <<S_indexes, indexes>> >>))

(* `for collection_name, collection_schema in data['collections'].items()`:
   self.schemas when the loop ends or an entry raises. *)
RECURSIVE LoadLoop(_, _)
LoadLoop(items, schemas) ==
    IF items = <<>> THEN [raised |-> FALSE, schemas |-> schemas]
    ELSE With(LoadEntry(items[1][1], items[1][2]),
              LAMBDA schema :
                 IF schema = Raised THEN [raised |-> TRUE, schemas |-> schemas]
                 ELSE LoadLoop(Tail(items), Put(schemas, items[1][1], schema)))

(* The fallback: each other .json file of the directory that holds a dict
   with a truthy 'collection' becomes the schema of that name. *)
RECURSIVE LoadOldFormat(_, _)
LoadOldFormat(old_files, schemas) ==
    IF old_files = <<>> THEN schemas
    ELSE LET schema == old_files[1]
             named == /\ schema.k = "dict"
                      /\ Truthy(GetOr(schema.v, S_collection, PyNone))
                      /\ Hashable(Get(schema.v, S_collection))
         IN  LoadOldFormat(Tail(old_files),
                           IF named /\ Get(schema.v, S_collection).k = "str"
                           THEN Put(schemas, Get(schema.v, S_collection).v, schema)
                           ELSE schemas)

(* load_schemas(): self.schemas afterwards, given the artifact file and the
   other schema files of the directory. *)
load_schemas(artifact, old_files) ==
    IF artifact.kind = "missing" THEN LoadOldFormat(old_files, <<>>)
    ELSE IF artifact.kind = "garbage" THEN LoadOldFormat(old_files, <<>>)
    ELSE LET data == artifact.root
         IN  IF InRaises(data) THEN LoadOldFormat(old_files, <<>>)
             ELSE IF ~In(S_collections, data) THEN LoadOldFormat(old_files, <<>>)
             ELSE IF data.k # "dict" \/ Get(data.v, S_collections).k # "dict"
                  THEN LoadOldFormat(old_files, <<>>)
             ELSE With(LoadLoop(Get(data.v, S_collections).v, <<>>),
                       LAMBDA loop :
                          IF loop.raised THEN LoadOldFormat(old_files, loop.schemas)
                          ELSE loop.schemas)

(* get_collection_names() *)
get_collection_names(schemas) == KeyList(schemas)

(* The text of get_schema_summary and get_all_schemas_summary, a str being
   the tuple of its characters. *)
S_Available_Collections == <<"A", "v", "a", "i", "l", "a", "b", "l", "e", " ", "C", "o", "l", "l", "e", "c", "t", "i", "o", "n", "s", ":", "\n", "\n">>
S_colon_space == <<":", " ">>
S_newline == <<"\n">>
S_Collection_colon == <<"C", "o", "l", "l", "e", "c", "t", "i", "o", "n", ":", " ">>
S_Description_colon == <<"D", "e", "s", "c", "r", "i", "p", "t", "i", "o", "n", ":", " ">>
S_Fields_heading == <<"F", "i", "e", "l", "d", "s", ":", "\n">>
S_field_bullet == <<" ", " ", "-", " ">>
S_prop_bullet == <<" ", " ", " ", " ", "-", " ">>
S_open_paren == <<" ", "(">>
S_close_paren_colon == <<")", ":", " ">>
S_close_paren_newline == <<")", "\n">>
S_dot == <<".">>
S_array_of == <<" ", " ", " ", " ", "(", "a", "r", "r", "a", "y", " ", "o", "f", " ">>
S_Allowed_values == <<" ", " ", " ", " ", "A", "l", "l", "o", "w", "e", "d", " ", "v", "a", "l", "u", "e", "s", ":", " ">>
S_comma_space == <<",", " ">>
S_Indexes_heading == <<"\n", "I", "n", "d", "e", "x", "e", "s", ":", "\n">>
S_unique_suffix == <<" ", "(", "u", "n", "i", "q", "u", "e", ")">>
S_None == <<"N", "o", "n", "e">>
S_True == <<"T", "r", "u", "e">>
S_False == <<"F", "a", "l", "s", "e">>
S_N_A == <<"N", "/", "A">>
(* U+2022, the bullet that opens a line of the list of collections. *)
S_bullet == <<"bullet", " ">>
RuleWidth == 60
S_rule == <<"\n">> \o [i \in 1..RuleWidth |-> "="] \o <<"\n", "\n">>

(* f'{value}' for the values a schema holds as type or description. *)
Fmt(x) ==
    CASE x.k = "str" -> x.v
      [] x.k = "int" -> IF x.v < 0 THEN <<"-">> \o IntToStr(0 - x.v) ELSE IntToStr(x.v)
      [] x.k = "null" -> S_None
      [] x.k = "bool" -> IF x.v THEN S_True ELSE S_False
      [] OTHER -> <<"repr">>

(* ', '.join(parts) of a sequence of str *)
RECURSIVE JoinComma(_)
JoinComma(parts) ==
    IF parts = <<>> THEN <<>>
    ELSE IF Len(parts) = 1 THEN parts[1]
    ELSE parts[1] \o S_comma_space \o JoinComma(Tail(parts))

(* The lines get_schema_summary adds for one field; Raised where it calls
   .items(), .get() or join on a value that does not have it. *)
FieldSummary(field_name, field_info) ==
    IF field_info.k # "dict" THEN Raised
    ELSE LET field_type == GetOr(field_info.v, S_type, PyStr(S_unknown))
             field_desc == GetOr(field_info.v, S_description, PyStr(<<>>))
             line == S_field_bullet \o field_name \o S_open_paren \o Fmt(field_type)
                     \o S_close_paren_colon \o Fmt(field_desc) \o S_newline
             nested == field_type = PyStr(S_object) /\ Has(field_info.v, S_properties)
             properties == Get(field_info.v, S_properties)
             array == field_type = PyStr(S_array) /\ Has(field_info.v, S_items)
             items == Get(field_info.v, S_items)
             listed == Has(field_info.v, S_enum)
             enum == Get(field_info.v, S_enum)
         IN  IF nested /\ (properties.k # "dict" \/ \E i \in DOMAIN properties.v : properties.v[i][2].k # "dict")
             THEN Raised
             ELSE IF array /\ items.k # "dict" THEN Raised
             ELSE IF listed /\ (enum.k # "list" \/ \E i \in DOMAIN enum.v : enum.v[i].k # "str")
             THEN Raised
             ELSE line
                  \o (IF nested
                      THEN Concat([i \in DOMAIN properties.v |->
                                     S_prop_bullet \o field_name \o S_dot \o properties.v[i][1]
                                     \o S_open_paren
                                     \o Fmt(GetOr(properties.v[i][2].v, S_type, PyStr(S_unknown)))
                                     \o S_close_paren_newline])
                      ELSE <<>>)
                  \o (IF array
                      THEN S_array_of \o Fmt(GetOr(items.v, S_type, PyStr(S_unknown)))
                           \o S_close_paren_newline
                      ELSE <<>>)
                  \o (IF listed
                      THEN S_Allowed_values \o JoinComma([i \in DOMAIN enum.v |-> enum.v[i].v])
                           \o S_newline
                      ELSE <<>>)

(* The lines of the Indexes section. *)
IndexesSummary(schema) ==
    IF ~Has(schema, S_indexes) THEN <<>>
    ELSE LET indexes == Get(schema, S_indexes)
         IN  IF indexes.k # "list" \/ \E i \in DOMAIN indexes.v : indexes.v[i].k # "dict"
             THEN Raised
             ELSE S_Indexes_heading
                  \o Concat([i \in DOMAIN indexes.v |->
                               S_field_bullet
                               \o Fmt(GetOr(indexes.v[i].v, S_field, PyStr(S_unknown)))
                               \o (IF Truthy(GetOr(indexes.v[i].v, S_unique, PyNone))
                                   THEN S_unique_suffix ELSE <<>>)
                               \o S_newline])

(* get_schema_summary(collection_name) of a loaded schema *)
get_schema_summary(schemas, collection_name) ==
    LET schema == Get(schemas, collection_name).v
        fields == GetOr(schema, S_fields, PyDict(<<>>))
    IN  IF fields.k # "dict" THEN Raised
        ELSE With(<< [i \in DOMAIN fields.v |-> FieldSummary(fields.v[i][1], fields.v[i][2])],
                     IndexesSummary(schema) >>,
                  LAMBDA parts :
                     IF parts[2] = Raised \/ \E i \in DOMAIN parts[1] : parts[1][i] = Raised
                     THEN Raised
                     ELSE S_Collection_colon \o collection_name \o S_newline
                          \o S_Description_colon \o Fmt(GetOr(schema, S_description, PyStr(S_N_A)))
                          \o S_newline \o S_newline
                          \o S_Fields_heading
                          \o Concat(parts[1])
                          \o parts[2])

(* get_all_schemas_summary(): the text handed to the language model. *)
get_all_schemas_summary(schemas) ==
    With([i \in DOMAIN schemas |-> get_schema_summary(schemas, schemas[i][1])],
         LAMBDA summaries :
            IF \E i \in DOMAIN summaries : summaries[i] = Raised THEN Raised
            ELSE S_Available_Collections
                 \o Concat([i \in DOMAIN schemas |->
                              S_bullet \o schemas[i][1] \o S_colon_space
                              \o Fmt(GetOr(schemas[i][2].v, S_description, PyStr(S_N_A)))
                              \o S_newline])
                 \o S_rule
                 \o Concat([i \in DOMAIN summaries |-> summaries[i] \o S_rule]))

----------------------------------------------------------------------------
(* State.                                                                  *)
VARIABLES
    db,      \* the document store
    file,    \* the schema artifact file (schemas.json)
    run,     \* per request: the locals of the handler and of generate_schemas
    last,    \* history: the last run that wrote the artifact
    served,  \* history: the number of requests received
    probe    \* argument and result of a detector applied on its own

vars == <<db, file, run, last, served, probe>>

Runs == {1, 2}

(* {'$sample': {'size': n}}: the documents the store may return, n distinct
   documents in any order.  For a collection of more than MaxShuffle
   documents only the natural order and its reverse are drawn. *)
MaxShuffle == 3
Reverse(s) == [i \in DOMAIN s |-> s[Len(s) + 1 - i]]
Samples(docs, n) ==
    IF Len(docs) <= MaxShuffle
    THEN {[i \in 1..n |-> docs[pick[i]]] :
             pick \in {p \in [1..n -> DOMAIN docs] : \A i, j \in 1..n : i # j => p[i] # p[j]}}
    ELSE {Take(docs, n), Take(Reverse(docs), n)}

(* The locals of a request that has not started. *)
Idle ==
    [pc |-> "idle",
     collection_names |-> <<>>, sample_size |-> 0,
     detect_relationships |-> FALSE, merge_strategy |-> <<>>,
     i |-> 0, collections_data |-> <<>>, relationships |-> PyNone,
     fresh |-> PyNone, schemas |-> PyNone, result |-> PyNone,
     before |-> NoFile, prev |-> [valid |-> FALSE], read |-> NoFile, stale |-> FALSE,
     fk_errors |-> {}, corr_errors |-> {},
     validations |-> [fk |-> {}, corr |-> {}],
     raised |-> "none", wrote |-> FALSE,
     response |-> [status |-> 0, success |-> FALSE]]

NoLast == [valid |-> FALSE]

(* generate_schema, the HTTP handler, up to its call of generate_schemas:
   the parameters are read and the collection names validated. *)
Request(r, collection_names, sample_size, detect, merge_strategy) ==
    /\ run[r].pc = "idle"
    /\ LET invalid == \E i \in DOMAIN collection_names : collection_names[i] \notin DOMAIN db
       IN  run' = [run EXCEPT ![r] =
              IF collection_names = <<>> \/ invalid
              THEN [Idle EXCEPT !.pc = "responded",
                                !.response = [status |-> 400, success |-> FALSE]]
              ELSE [Idle EXCEPT !.pc = "analyze",
                                !.collection_names = collection_names,
                                !.sample_size = sample_size,
                                !.detect_relationships = detect,
                                !.merge_strategy = merge_strategy,
                                !.i = 1,
                                !.before = file,
                                !.prev = last]]
    /\ served' = served + 1
    /\ UNCHANGED <<db, file, last, probe>>

(* The exception as it would be if the loop caught it and went on to
   relationship detection. *)
Raise_Swallowed(r, where) == [run[r] EXCEPT !.pc = "detect", !.raised = where]

(* The exception as it would be if generate_schemas saved what it had when
   an analysis or the detection failed. *)
Raise_SavesPartial(r, where) ==
    IF where \in {"analyze", "detect"}
    THEN [run[r] EXCEPT !.pc = "save", !.raised = where,
                        !.schemas = BuildSchemas(run[r].collections_data)]
    ELSE [run[r] EXCEPT !.pc = "failed", !.raised = where]

(* The exception of generate_schemas reaches the handler. *)
Raise(r, where) == [run[r] EXCEPT !.pc = "failed", !.raised = where]

(* One iteration of `for collection_name in collection_names`. *)
AnalyzeCollection(r) ==
    /\ run[r].pc = "analyze"
    /\ LET collection_name == run[r].collection_names[run[r].i]
           n == ActualSampleSize(run[r].sample_size, CountAll(db, collection_name))
       IN  \E documents \in Samples(Collection(db, collection_name).docs, n) :
              \E analysis \in {analyze_collection(db, collection_name, run[r].sample_size, documents)} :
                  run' = [run EXCEPT ![r] =
                     IF analysis.raised THEN Raise(r, "analyze")
                     ELSE [@ EXCEPT !.collections_data = Put(@, collection_name, analysis),
                                    !.i = @ + 1,
                                    !.pc = IF run[r].i = Len(run[r].collection_names)
                                           THEN "detect" ELSE "analyze"]]
    /\ UNCHANGED <<db, file, last, served, probe>>

(* A store call of analyze_collection (count_documents, aggregate or
   list_indexes) raises. *)
AnalyzeStoreError(r) ==
    /\ run[r].pc = "analyze"
    /\ run' = [run EXCEPT ![r] = Raise(r, "analyze")]
    /\ UNCHANGED <<db, file, last, served, probe>>

(* The condition as it would be without the test of the number of
   collections. *)
Detects_AnyNumber(detect, collection_names) == detect

(* Whether generate_schemas calls detect_relationships. *)
Detects(detect, collection_names) == detect /\ Len(collection_names) > 1

(* The validations detect_relationships would make for collections_data. *)
FkValidations(collections_data) ==
    {<<c.source, c.field>> : c \in SeqToSet(FkCandidates(collections_data))}
CorrValidations(collections_data) ==
    {item[1] : item \in {x \in SeqToSet(FieldToCollections(AllFields(collections_data), <<>>)) :
                            Len(x[2]) >= 2}}

(* Relationship detection, then the schemas structure is built.  fk_errors
   and corr_errors are the validations during which the store raises. *)
DetectRelationships(r, fk_errors, corr_errors) ==
    /\ run[r].pc = "detect"
    /\ LET detects == Detects(run[r].detect_relationships, run[r].collection_names)
           fresh == BuildSchemas(run[r].collections_data)
           validations == IF detects
                          THEN [fk |-> FkValidations(run[r].collections_data),
                                corr |-> CorrValidations(run[r].collections_data)]
                          ELSE [fk |-> {}, corr |-> {}]
       IN  /\ fk_errors \subseteq (IF detects THEN FkValidations(run[r].collections_data) ELSE {})
           /\ corr_errors \subseteq (IF detects THEN CorrValidations(run[r].collections_data) ELSE {})
           /\ \E relationships \in
                    {IF detects
                     THEN detect_relationships(db, run[r].collections_data, fk_errors, corr_errors)
                     ELSE PyNone} :
               run' = [run EXCEPT ![r] =
                 IF relationships = Raised
                 THEN [Raise(r, "detect") EXCEPT !.fk_errors = fk_errors, !.corr_errors = corr_errors,
                                              !.validations = validations]
                 ELSE
                 [@ EXCEPT !.relationships = relationships,
                           !.fk_errors = fk_errors,
                           !.corr_errors = corr_errors,
                           !.validations = validations,
                           !.fresh = fresh,
                           !.schemas = fresh,
                           !.pc = IF run[r].merge_strategy = S_merge THEN "merge" ELSE "save"]]
    /\ UNCHANGED <<db, file, last, served, probe>>

(* if merge_strategy == 'merge': the artifact is read and merged. *)
MergeWithExisting(r) ==
    /\ run[r].pc = "merge"
    /\ run' = [run EXCEPT ![r] =
          [@ EXCEPT !.schemas = _merge_with_existing_schemas(run[r].fresh, file),
                    !.read = file,
                    !.pc = "save"]]
    /\ UNCHANGED <<db, file, last, served, probe>>

(* The schemas as they would be were the artifact read again and merged
   at the moment of the write. *)
SchemasToSave_Atomic(r) ==
    IF run[r].merge_strategy = S_merge
    THEN _merge_with_existing_schemas(run[r].fresh, file)
    ELSE run[r].schemas

(* The schemas generate_schemas puts into final_schema. *)
SchemasToSave(r) == run[r].schemas

(* The relationships as they would be if a run that computed none carried
   over the block of the artifact it met. *)
RelationshipsToSave_KeepsPersisted(r) ==
    IF Truthy(run[r].relationships) THEN run[r].relationships
    ELSE IF file.kind = "json" /\ file.root.k = "dict" /\ Has(file.root.v, S_relationships)
    THEN Get(file.root.v, S_relationships)
    ELSE PyNone

(* The relationships generate_schemas puts into final_schema. *)
RelationshipsToSave(r) == run[r].relationships

(* final_schema is written, the statistics computed and the result
   returned. *)
SaveSchemas(r) ==
    /\ run[r].pc = "save"
    /\ \E schemas \in {SchemasToSave(r)} :
       \E saved \in {_save_schemas(FinalSchema(run[r].collection_names, schemas, RelationshipsToSave(r)))} :
       LET stale == run[r].merge_strategy = S_merge /\ file # run[r].read
       IN  /\ file' = saved.file
           /\ run' = [run EXCEPT ![r] =
                 IF saved.raised THEN [Raise(r, "save") EXCEPT !.wrote = TRUE, !.stale = stale]
                 ELSE IF TotalFieldsRaises(schemas)
                 THEN [Raise(r, "stats") EXCEPT !.wrote = TRUE, !.stale = stale, !.schemas = schemas]
                 ELSE [@ EXCEPT !.pc = "returned",
                                !.wrote = TRUE,
                                !.stale = stale,
                                !.schemas = schemas,
                                !.result = GenerateResult(run[r].collection_names, schemas,
                                                          run[r].relationships)]]
           /\ last' = IF saved.raised \/ TotalFieldsRaises(schemas) THEN NoLast
                      ELSE [valid |-> TRUE, writer |-> r,
                            collection_names |-> run[r].collection_names,
                            merge_strategy |-> run[r].merge_strategy,
                            fresh |-> run[r].fresh]
    /\ UNCHANGED <<db, served, probe>>

(* schema_loader.reload_schemas(): SchemaLoader defines no such method, so
   the call raises AttributeError. *)
ReloadSchemasRaises == TRUE

(* The rest of the handler: after generate_schemas returned, or in the
   except clause. *)
Respond(r) ==
    /\ run[r].pc \in {"returned", "failed"}
    /\ run' = [run EXCEPT ![r] =
          [@ EXCEPT !.pc = "responded",
                    !.response = IF run[r].pc = "returned" /\ ~ReloadSchemasRaises
                                 THEN [status |-> 200, success |-> TRUE]
                                 ELSE [status |-> 500, success |-> FALSE]]]
    /\ UNCHANGED <<db, file, last, served, probe>>

(* The request is over; the next one may arrive. *)
Finish(r) ==
    /\ run[r].pc = "responded"
    /\ run' = [run EXCEPT ![r] = Idle]
    /\ UNCHANGED <<db, file, last, served, probe>>

----------------------------------------------------------------------------
(* Stores and artifacts the runs start from.                               *)
DefaultIndex == [name |-> S__id_, key |-> <<S__id>>, unique |-> FALSE]
TrackingIndex == [name |-> <<"t", "r", "a", "c", "k", "i", "n", "g", "_", "i", "d", "_", "1">>, key |-> <<S_tracking_id>>, unique |-> FALSE]

(* orders reference customers by customer_id; both carry tracking_id. *)
OrderDoc(id, customer, items) ==
    PyDict(<< <<S__id, PyInt(id)>>, <<S_customer_id, PyInt(customer)>> >> \o items)
CustomerDoc(id, items) == PyDict(<< <<S__id, PyInt(id)>> >> \o items)
T1 == PyStr(<<"t", "1">>)
T2 == PyStr(<<"t", "2">>)

StoreLinked ==
    (S_orders :> [docs |-> << OrderDoc(1, 1, << <<S_status, PyStr(<<"n", "e", "w">>)>>, <<S_tracking_id, T1>> >>),
                             OrderDoc(2, 2, << <<S_tracking_id, T2>> >>) >>,
                  indexes |-> <<DefaultIndex, TrackingIndex>>])
    @@ (S_customers :> [docs |-> << CustomerDoc(1, << <<S_name, PyStr(<<"a", "n", "n">>)>>, <<S_tracking_id, T1>> >>),
                                   CustomerDoc(2, << <<S_tracking_id, T2>> >>) >>,
                        indexes |-> <<DefaultIndex, TrackingIndex>>])

Stores == {StoreLinked}

(* Field definitions as a person may have edited them into the artifact. *)
ManualDef(type) == PyDict(<< <<S_type, PyStr(type)>>, <<S_description, PyStr(<<"m", "a", "n", "u", "a", "l">>)>> >>)
Entry(fields) == PyDict(<< <<S_description, PyStr(<<"k", "e", "p", "t">>)>>, <<S_fields, fields>> >>)
Artifact(collections) ==
    JsonFile(PyDict(<< <<S_description, PyStr(<<"s", "c", "h", "e", "m", "a", "s">>)>>, <<S_collections, collections>> >>))

LegacyEntry == Entry(PyDict(<< <<S_name, ManualDef(S_string)>> >>))
OrdersEntry == Entry(PyDict(<< <<S_customer_id, ManualDef(S_string)>>, <<S_name, ManualDef(S_number)>> >>))

(* Well-formed artifacts. *)
ArtifactLegacy == Artifact(PyDict(<< <<S_legacy, LegacyEntry>>, <<S_orders, OrdersEntry>> >>))
ArtifactCustomers == Artifact(PyDict(<< <<S_customers, Entry(PyDict(<< <<S_name, ManualDef(S_string)>> >>))>> >>))

(* Artifacts that parse but are not of the artifact format. *)
ArtifactRootList == JsonFile(PyList(<<>>))
ArtifactCollectionsList == Artifact(PyList(<<PyStr(S_orders)>>))
ArtifactEntryString == Artifact(PyDict(<< <<S_orders, OrdersEntry>>, <<S_customers, PyStr(<<"j", "u", "n", "k">>)>> >>))
ArtifactFieldsList == Artifact(PyDict(<< <<S_orders, Entry(PyList(<<>>))>> >>))
ArtifactNoFields == Artifact(PyDict(<< <<S_legacy, PyDict(<< <<S_description, PyStr(<<"k", "e", "p", "t">>)>> >>)>> >>))

WellFormedArtifacts == {ArtifactLegacy, ArtifactCustomers}
MalformedArtifacts ==
    {Garbage, ArtifactRootList, ArtifactCollectionsList, ArtifactEntryString,
     ArtifactFieldsList, ArtifactNoFields}
Artifacts == {NoFile} \cup WellFormedArtifacts \cup MalformedArtifacts

----------------------------------------------------------------------------
(* Sequential runs: requests arrive one after the other.                   *)
SampleSizes == {1}
MaxRequests == 2
RequestLists ==
    {<<>>, <<S_ghost>>, <<S_orders>>, <<S_orders, S_customers>>}
Strategies == {S_merge, S_overwrite}

Init ==
    /\ db \in Stores
    /\ file \in Artifacts
    /\ run = [r \in Runs |-> Idle]
    /\ last = NoLast
    /\ served = 0
    /\ probe = PyNone

Next ==
    \E r \in {1} :
       \/ /\ served < MaxRequests
          /\ \E names \in RequestLists, size \in SampleSizes, detect \in BOOLEAN, strategy \in Strategies :
                Request(r, names, size, detect, strategy)
       \/ AnalyzeCollection(r)
       \/ AnalyzeStoreError(r)
       \/ DetectRelationships(r, {}, {})
       \/ MergeWithExisting(r)
       \/ SaveSchemas(r)
       \/ Respond(r)
       \/ Finish(r)

Spec == Init /\ [][Next]_vars

----------------------------------------------------------------------------
(* Reading the artifact.                                                   *)

(* The per-collection entries of an artifact, none when it has no such map. *)
ArtifactCollections(f) ==
    IF f.kind = "json" /\ f.root.k = "dict" /\ Has(f.root.v, S_collections)
       /\ Get(f.root.v, S_collections).k = "dict"
    THEN Get(f.root.v, S_collections).v
    ELSE <<>>

(* The field map of an entry, empty when it has none. *)
FieldsOf(entry) ==
    IF entry.k = "dict" /\ Has(entry.v, S_fields) /\ Get(entry.v, S_fields).k = "dict"
    THEN Get(entry.v, S_fields).v
    ELSE <<>>

(* The artifact has the format the generator writes: a root object whose
   collections map holds objects with a fields map. *)
WellFormed(f) ==
    /\ f.kind = "json"
    /\ f.root.k = "dict"
    /\ Has(f.root.v, S_collections)
    /\ Get(f.root.v, S_collections).k = "dict"
    /\ \A c \in Keys(ArtifactCollections(f)) :
          LET entry == Get(ArtifactCollections(f), c)
          IN  entry.k = "dict" /\ Has(entry.v, S_fields) /\ Get(entry.v, S_fields).k = "dict"
Malformed(f) == f.kind # "missing" /\ ~WellFormed(f)

----------------------------------------------------------------------------
(* Properties of sequential runs (Spec).                                   *)

(* C1: when a run has returned, every collection that the artifact defined
   before the run and that the request did not name is still in the
   artifact with the same definition, whichever the merge strategy. *)
C1_UnrequestedUntouched ==
    \A r \in Runs :
       (run[r].pc = "returned" /\ WellFormed(run[r].before)) =>
          \A c \in Keys(ArtifactCollections(run[r].before)) \ SeqToSet(run[r].collection_names) :
             /\ Has(ArtifactCollections(file), c)
             /\ PyEq(Get(ArtifactCollections(file), c), Get(ArtifactCollections(run[r].before), c))

(* C2: a run that follows a successful run of the same collections leaves,
   under overwrite, exactly its own inferred entry for each collection;
   under merge, every field both runs inferred keeps the definition it had
   in the artifact after the first run, which is the first run's inferred
   definition when that run overwrote. *)
C2_SecondRunOfSameCollections ==
    \A r \in Runs :
       (run[r].pc = "returned" /\ run[r].prev.valid
        /\ run[r].prev.collection_names = run[r].collection_names) =>
          \A i \in DOMAIN run[r].collection_names :
             LET c == run[r].collection_names[i]
                 now == Get(ArtifactCollections(file), c)
                 second == Get(run[r].fresh.v, c)
                 first == Get(run[r].prev.fresh.v, c)
                 kept == Get(ArtifactCollections(run[r].before), c)
             IN  IF run[r].merge_strategy = S_overwrite
                 THEN now = second
                 ELSE \A f \in Keys(FieldsOf(first)) \cap Keys(FieldsOf(second)) :
                         /\ Has(FieldsOf(now), f)
                         /\ Get(FieldsOf(now), f) = Get(FieldsOf(kept), f)
                         /\ run[r].prev.merge_strategy = S_overwrite =>
                               Get(FieldsOf(now), f) = Get(FieldsOf(first), f)

(* A merge run has returned after an overwrite run of the same collections
   that inferred another definition for a field both inferred, and the
   artifact holds the first run's. *)
C2_Witness ==
    \E r \in Runs :
       /\ run[r].pc = "returned" /\ run[r].prev.valid
       /\ run[r].prev.collection_names = run[r].collection_names
       /\ run[r].merge_strategy = S_merge
       /\ run[r].prev.merge_strategy = S_overwrite
       /\ \E i \in DOMAIN run[r].collection_names :
             LET c == run[r].collection_names[i]
                 first == FieldsOf(Get(run[r].prev.fresh.v, c))
                 second == FieldsOf(Get(run[r].fresh.v, c))
             IN  /\ Keys(first) # Keys(second)
                 /\ \E f \in Keys(first) \cap Keys(second) :
                       /\ Get(first, f) # Get(second, f)
                       /\ Get(FieldsOf(Get(ArtifactCollections(file), c)), f) = Get(first, f)

(* C8: a merge run that read a malformed artifact does not fail, and the
   schemas it returns and persists are exactly the freshly generated ones. *)
C8_MalformedArtifactFallsBack ==
    \A r \in Runs :
       (run[r].merge_strategy = S_merge /\ Malformed(run[r].read)
        /\ run[r].pc \in {"returned", "failed"}) =>
          /\ run[r].pc = "returned"
          /\ run[r].schemas = run[r].fresh
          /\ ArtifactCollections(file) = run[r].fresh.v

(* C10: once the analysis of a collection has failed, the run has ended
   with the exception: nothing was written, no statistics were produced and
   the handler's response is not a success. *)
C10_AnalysisFailurePropagates ==
    \A r \in Runs :
       run[r].raised = "analyze" =>
          /\ run[r].pc \in {"failed", "responded"}
          /\ run[r].result = PyNone
          /\ ~run[r].wrote
          /\ run[r].pc = "responded" =>
                (~run[r].response.success /\ run[r].response.status = 500)

(* The second collection of a request failed after the first was analysed,
   and the handler has responded. *)
C10_Witness ==
    \E r \in Runs :
       /\ run[r].raised = "analyze"
       /\ run[r].pc = "responded"
       /\ run[r].i = 2
       /\ Len(run[r].collections_data) = 1
       /\ run[r].response = [status |-> 500, success |-> FALSE]

----------------------------------------------------------------------------
(* Two runs against the same artifact, one request each (SpecRace): the
   handler is served by a threaded server, so a second request may start
   while the first runs. *)
InitRace ==
    /\ db = StoreLinked
    /\ file \in {NoFile, ArtifactLegacy}
    /\ run = [r \in Runs |-> Idle]
    /\ last = NoLast
    /\ served = 0
    /\ probe = PyNone

NextRace ==
    \E r \in Runs :
       \/ /\ served < MaxRequests
          /\ \E names \in {<<S_orders>>, <<S_customers>>}, size \in SampleSizes, strategy \in Strategies :
                Request(r, names, size, FALSE, strategy)
       \/ AnalyzeCollection(r)
       \/ DetectRelationships(r, {}, {})
       \/ MergeWithExisting(r)
       \/ SaveSchemas(r)
       \/ Respond(r)

SpecRace == InitRace /\ [][NextRace]_vars

(* C7: a merge run that wrote after the artifact had changed since it read
   it leaves an artifact holding only the collections it read and those it
   generated: what another run wrote in between is gone, and the run
   returned success all the same. *)
C7_StaleWriteReplaces ==
    \A r \in Runs :
       (run[r].pc = "returned" /\ run[r].stale /\ last.valid /\ last.writer = r) =>
          /\ run[r].result.success
          /\ \A c \in Keys(ArtifactCollections(file)) :
                \/ c \in SeqToSet(run[r].collection_names)
                \/ Has(ArtifactCollections(run[r].read), c)

(* Both runs merged and returned success, each for another collection; the
   later writer had read the artifact before the earlier one wrote, and the
   artifact lacks the earlier one's collection. *)
C7_Witness ==
    \E r, o \in Runs :
       /\ r # o
       /\ run[r].pc = "returned" /\ run[r].stale /\ last.valid /\ last.writer = r
       /\ run[o].pc = "returned" /\ run[o].wrote /\ run[o].merge_strategy = S_merge
       /\ run[o].result.success /\ run[r].result.success
       /\ run[o].before = run[r].before
       /\ \E c \in SeqToSet(run[o].collection_names) : ~Has(ArtifactCollections(file), c)

----------------------------------------------------------------------------
(* One run during which validations meet store errors (SpecErrors).       *)
InitErrors ==
    /\ db = StoreLinked
    /\ file \in {NoFile, ArtifactLegacy}
    /\ run = [r \in Runs |-> Idle]
    /\ last = NoLast
    /\ served = 0
    /\ probe = PyNone

NextErrors ==
    \E r \in {1} :
       \/ /\ served < MaxRequests
          /\ \E names \in {<<S_orders, S_customers>>, <<S_customers, S_orders>>},
                size \in SampleSizes, strategy \in Strategies :
                Request(r, names, size, TRUE, strategy)
       \/ AnalyzeCollection(r)
       \/ AnalyzeStoreError(r)
       \/ \E fk_errors \in SUBSET FkValidations(run[r].collections_data),
             corr_errors \in SUBSET CorrValidations(run[r].collections_data) :
             DetectRelationships(r, fk_errors, corr_errors)
       \/ MergeWithExisting(r)
       \/ SaveSchemas(r)
       \/ Respond(r)

SpecErrors == InitErrors /\ [][NextErrors]_vars

(* The links of a relationships section. *)
Links(relationships) ==
    IF relationships.k = "dict" THEN GetOr(relationships.v, S_links, PyList(<<>>)).v ELSE <<>>

(* The link comes of a validation among the failed ones. *)
OfFailedValidation(link, fk_errors, corr_errors) ==
    IF IsCorrelation(link)
    THEN Get(link.v, S_field).v \in corr_errors
    ELSE <<Get(link.v, S_from).v, Get(link.v, S_field).v>> \in fk_errors

(* C9: when validations met errors, no exception left relationship
   detection; the links found are those an undisturbed detection finds,
   less the links of the failed validations, each with the same content;
   and a run that has returned has written the artifact. *)
C9_ValidationErrorContained ==
    \A r \in Runs :
       (run[r].fk_errors \cup run[r].corr_errors # {}) =>
          LET undisturbed == detect_relationships(db, run[r].collections_data, {}, {})
          IN  /\ run[r].raised = "none"
              /\ Links(run[r].relationships)
                    = SelectSeq(Links(undisturbed),
                                LAMBDA link : ~OfFailedValidation(link, run[r].fk_errors, run[r].corr_errors))
              /\ run[r].pc \in {"merge", "save", "returned", "responded"}
              /\ run[r].pc \in {"returned", "responded"} =>
                    (run[r].wrote /\ run[r].result # PyNone /\ run[r].result.success)

(* A run has returned and written the artifact although one validation
   failed: the link of the other candidate is there, that of the failed
   one is not. *)
C9_Witness ==
    \E r \in Runs :
       /\ run[r].pc = "returned" /\ run[r].wrote
       /\ run[r].fk_errors \cup run[r].corr_errors # {}
       /\ Len(Links(run[r].relationships)) = 1
       /\ Len(Links(detect_relationships(db, run[r].collections_data, {}, {}))) = 2
       /\ Links(Get(file.root.v, S_relationships)) = Links(run[r].relationships)

----------------------------------------------------------------------------
(* The detectors applied on their own to a store (SpecFK, SpecCorr).       *)

(* sample_size: int = 100 *)
DefaultSampleSize == 100

(* collections_data as the loop of generate_schemas builds it when the
   store samples the documents in their natural order. *)
ProbeData(collection_names) ==
    [i \in DOMAIN collection_names |->
       <<collection_names[i],
         analyze_collection(db, collection_names[i], DefaultSampleSize,
                            Take(Collection(db, collection_names[i]).docs, DefaultSampleSize))>>]

(* Phase 1 of detect_relationships on orders and customers. *)
DetectForeignKeys ==
    /\ probe = PyNone
    /\ probe' = [k |-> "fk",
                 v |-> ForeignKeyRelationships(db, ProbeData(<<S_orders, S_customers>>), {})]
    /\ UNCHANGED <<db, file, run, last, served>>

(* _detect_correlation_fields on orders and customers. *)
DetectCorrelations ==
    /\ probe = PyNone
    /\ probe' = [k |-> "corr",
                 v |-> _detect_correlation_fields(db, ProbeData(<<S_orders, S_customers>>), {})]
    /\ UNCHANGED <<db, file, run, last, served>>

(* Stores of n orders and n customers with _id 1..n.  Order i holds
   customer_id i, but the first `repeats` orders hold the customer_id of
   the order after them and the last `dangling` orders one that no customer
   has.  With `arrays` each customer_id is a one-element list. *)
MaxSource == 10
MaxDangling == 2
MaxRepeats == 2
FkValue(i, n, dangling, repeats) ==
    IF i > n - dangling THEN 900 + i
    ELSE IF i <= repeats THEN repeats + 1
    ELSE i
FkStore(n, dangling, repeats, arrays) ==
    (S_orders :> [docs |-> [i \in 1..n |->
                     PyDict(<< <<S__id, PyInt(i)>>,
                               <<S_customer_id,
                                 IF arrays THEN PyList(<<PyInt(FkValue(i, n, dangling, repeats))>>)
                                 ELSE PyInt(FkValue(i, n, dangling, repeats))>> >>)],
                  indexes |-> <<DefaultIndex>>])
    @@ (S_customers :> [docs |-> [i \in 1..n |-> CustomerDoc(i, <<>>)],
                        indexes |-> <<DefaultIndex>>])
FkStores ==
    {FkStore(n, dangling, repeats, arrays) :
        n \in {m \in (1..MaxSource) \cup {CheckLimit + 1} : TRUE},
        dangling \in 0..MaxDangling, repeats \in 0..MaxRepeats, arrays \in BOOLEAN}

InitFK ==
    /\ db \in {s \in FkStores : TRUE}
    /\ file = NoFile
    /\ run = [r \in Runs |-> Idle]
    /\ last = NoLast
    /\ served = 0
    /\ probe = PyNone

NextFK == DetectForeignKeys

SpecFK == InitFK /\ [][NextFK]_vars

(* The values of customer_id the validation checks, read off the store:
   those of the first orders, list elements one by one, CheckLimit at most. *)
CheckedValues ==
    LET docs == Collection(db, S_orders).docs
        values == Concat([i \in DOMAIN docs |->
                            LET x == Get(docs[i].v, S_customer_id)
                            IN  IF x.k = "list" THEN x.v ELSE <<x>>])
    IN  Take(values, CheckLimit)

(* The positions of CheckedValues holding the _id of a customer. *)
ValidKeys ==
    {i \in DOMAIN CheckedValues :
        \E j \in DOMAIN Collection(db, S_customers).docs :
           Get(Collection(db, S_customers).docs[j].v, S__id) = CheckedValues[i]}

(* C4: the confidence is the fraction of the checked values, repeats
   included, that are the _id of a target document: the relationship from
   orders to customers via customer_id is emitted, with that confidence,
   exactly when the fraction is above 0.8. *)
C4_ConfidenceIsFractionOfCheckedValues ==
    probe.k = "fk" =>
       LET matches == Cardinality(ValidKeys)
           checked == Len(CheckedValues)
       IN  IF 5 * matches > 4 * checked
           THEN /\ Len(probe.v.v) = 1
                /\ Get(probe.v.v[1].v, S_from) = PyStr(S_orders)
                /\ Get(probe.v.v[1].v, S_to) = PyStr(S_customers)
                /\ Get(probe.v.v[1].v, S_field) = PyStr(S_customer_id)
                /\ Get(probe.v.v[1].v, S_confidence) = PyFloat(Round2(matches, checked))
           ELSE probe.v.v = <<>>

(* C5: every relationship foreign-key detection emits has type many-to-one
   or many-to-many and a reported confidence above 0.8 and at most 1.0; and
   none is emitted when the target documents matched are 0.8 of the checked
   values or fewer. *)
C5_EmittedRelationshipBounds ==
    probe.k = "fk" =>
       /\ \A i \in DOMAIN probe.v.v :
             /\ Get(probe.v.v[i].v, S_type) \in {PyStr(S_many_to_one), PyStr(S_many_to_many)}
             /\ Get(probe.v.v[i].v, S_confidence).k = "float"
             /\ Get(probe.v.v[i].v, S_confidence).v > 80
             /\ Get(probe.v.v[i].v, S_confidence).v <= 100
       /\ 5 * CountMatches(Collection(db, S_customers), CheckedValues) <= 4 * Len(CheckedValues)
             => probe.v.v = <<>>

(* 9 of 10 checked values are customers: one many-to-one relationship of
   confidence 0.9 is emitted. *)
C5_Witness ==
    /\ probe.k = "fk"
    /\ Len(CheckedValues) = 10
    /\ Cardinality(ValidKeys) = 9
    /\ Len(probe.v.v) = 1
    /\ Get(probe.v.v[1].v, S_type) = PyStr(S_many_to_one)
    /\ Get(probe.v.v[1].v, S_confidence) = PyFloat(90)

----------------------------------------------------------------------------
(* Stores whose orders and customers share the indexed string field
   tracking_id, holding the given values. *)
MaxTracked == 2
MaxOther == 3
T3 == PyStr(<<"t", "3">>)
Tracked(values) ==
    [docs |-> [i \in DOMAIN values |-> PyDict(<< <<S__id, PyInt(i)>>, <<S_tracking_id, values[i]>> >>)],
     indexes |-> <<DefaultIndex, TrackingIndex>>]
CorrStores ==
    {(S_orders :> Tracked(a)) @@ (S_customers :> Tracked(b)) :
        a \in UNION {[1..n -> {T1, T2}] : n \in 1..MaxTracked},
        b \in UNION {[1..n -> {T1, T2, T3}] : n \in 1..MaxOther}}

InitCorr ==
    /\ db \in {s \in CorrStores : TRUE}
    /\ file = NoFile
    /\ run = [r \in Runs |-> Idle]
    /\ last = NoLast
    /\ served = 0
    /\ probe = PyNone

NextCorr == DetectCorrelations

SpecCorr == InitCorr /\ [][NextCorr]_vars

(* C6: every correlation emitted groups at least 2 collections and has a
   reported confidence above 0.5 and at most 1.0. *)
C6_CorrelationBounds ==
    probe.k = "corr" =>
       \A i \in DOMAIN probe.v.v :
          /\ Len(Get(probe.v.v[i].v, S_collections).v) >= 2
          /\ Get(probe.v.v[i].v, S_confidence).v > 50
          /\ Get(probe.v.v[i].v, S_confidence).v <= 100

----------------------------------------------------------------------------
(* The end-to-end scenario (SpecE2E): E2EOrders orders, each holding as
   customer_id the _id of one of E2ECustomers customers; `each` consecutive
   orders reference the same customer. *)
E2EOrders == 100
E2ECustomers == 50
E2EStore(each, shift) ==
    (S_orders :> [docs |-> [i \in 1..E2EOrders |->
                     OrderDoc(i, ((((i - 1) \div each) + shift) % E2ECustomers) + 1, <<>>)],
                  indexes |-> <<DefaultIndex>>])
    @@ (S_customers :> [docs |-> [i \in 1..E2ECustomers |-> CustomerDoc(i, <<>>)],
                        indexes |-> <<DefaultIndex>>])

InitE2E ==
    /\ db \in {E2EStore(each, shift) : each \in 1..(MaxRepeats + 1), shift \in 0..MaxRepeats}
    /\ file \in {NoFile, ArtifactLegacy}
    /\ run = [r \in Runs |-> Idle]
    /\ last = NoLast
    /\ served = 0
    /\ probe = PyNone

NextE2E ==
    \E r \in {1} :
       \/ /\ served < MaxRequests
          /\ \E strategy \in Strategies :
                Request(r, <<S_orders, S_customers>>, DefaultSampleSize, TRUE, strategy)
       \/ AnalyzeCollection(r)
       \/ DetectRelationships(r, {}, {})
       \/ MergeWithExisting(r)
       \/ SaveSchemas(r)
       \/ Respond(r)

SpecE2E == InitE2E /\ [][NextE2E]_vars

(* C3: in the end-to-end scenario a run that has returned reports one
   relationship, of type many-to-one and confidence 1.0. *)
C3_EndToEndOneRelationship ==
    \A r \in Runs :
       run[r].pc = "returned" =>
          /\ run[r].result.stats.relationships_found = 1
          /\ Len(Links(run[r].result.relationships)) = 1
          /\ Get(Links(run[r].result.relationships)[1].v, S_type) = PyStr(S_many_to_one)
          /\ Get(Links(run[r].result.relationships)[1].v, S_confidence) = PyFloat(100)

----------------------------------------------------------------------------
(* analyze_collection applied on its own to one collection (SpecAnalyze).  *)

(* The documents {'$sample': {'size': n}} may return: never more than the
   collection holds. *)
Sample(docs, n) == Samples(docs, Min(n, Len(docs)))

(* analyze_collection(collection_name, sample_size): the store calls made,
   the documents sampled, the index mapping read and the dict returned. *)
AnalyzeAlone(collection_name, sample_size) ==
    /\ probe = PyNone
    /\ LET total_docs == CountAll(db, collection_name)
           n == ActualSampleSize(sample_size, total_docs)
           sampling == total_docs > 0 /\ ~SampleRaises(n)
       IN  \E documents \in (IF sampling THEN Sample(Collection(db, collection_name).docs, n)
                             ELSE {<<>>}) :
           \E analysis \in {IF total_docs > 0 /\ SampleRaises(n) THEN [raised |-> TRUE]
                            ELSE analyze_collection(db, collection_name, sample_size, documents)} :
              probe' = [k |-> "analysis",
                        collection_name |-> collection_name,
                        sample_size |-> sample_size,
                        calls |-> StoreCalls(total_docs, n),
                        documents |-> documents,
                        detected |-> IF sampling
                                     THEN PyDict(_detect_indexes(Collection(db, collection_name)))
                                     ELSE PyNone,
                        v |-> analysis]
    /\ UNCHANGED <<db, file, run, last, served>>

(* Collections of up to MaxDocs documents {_id, status}, status drawn from
   strings, an integer, None and a list; a document may lack the field. *)
MaxDocs == 3
Absent == [k |-> "absent"]
Letter(i) == PyStr(<<LowerCase[i]>>)
StatusValues == {Letter(1), Letter(2), PyInt(1), PyNone, PyList(<<Letter(1)>>), Absent}
StatusDoc(id, value) ==
    PyDict(<< <<S__id, PyInt(id)>> >> \o (IF value = Absent THEN <<>> ELSE << <<S_status, value>> >>))
StatusStore(values, indexes) ==
    S_orders :> [docs |-> [i \in DOMAIN values |-> StatusDoc(i, values[i])], indexes |-> indexes]

(* Index catalogs: the default index alone; a unique index on status; a
   compound index that names _id after or before status; no entry at all. *)
StatusIndex == [name |-> <<"s", "t", "a", "t", "u", "s", "_", "1">>, key |-> <<S_status>>, unique |-> TRUE]
StatusIdIndex == [name |-> <<"s", "t", "a", "t", "u", "s", "_", "1", "_", "_", "i", "d", "_", "1">>, key |-> <<S_status, S__id>>, unique |-> FALSE]
IdStatusIndex == [name |-> <<"_", "i", "d", "_", "1", "_", "s", "t", "a", "t", "u", "s", "_", "1">>, key |-> <<S__id, S_status>>, unique |-> FALSE]
Catalogs ==
    {<<DefaultIndex>>, <<DefaultIndex, StatusIndex>>, <<DefaultIndex, StatusIdIndex>>,
     <<DefaultIndex, IdStatusIndex, StatusIndex>>, <<>>}

(* Collections of MaxStoredValues + late documents: the first
   MaxStoredValues hold `early` distinct strings in turn, each of the late
   ones a further string. *)
MaxLate == 1
CapValue(i, early) == IF i <= MaxStoredValues THEN Letter(((i - 1) % early) + 1) ELSE Letter(early + i - MaxStoredValues)
CapStore(early, late) ==
    StatusStore([i \in 1..(MaxStoredValues + late) |-> CapValue(i, early)], <<DefaultIndex>>)

(* Values that Python takes as false: 0, False, '' and []. *)
FalsyValues == {PyInt(0), PyBool(FALSE), PyStr(<<>>), PyList(<<>>)}

AnalyzeStores ==
    {StatusStore(values, <<DefaultIndex>>) :
        values \in UNION {[1..n -> StatusValues] : n \in 0..MaxDocs}}
    \cup {StatusStore(values, indexes) :
            values \in UNION {[1..n -> {Letter(1)}] : n \in 0..2}, indexes \in Catalogs}
    \cup {CapStore(early, late) : early \in {1, 2, EnumMax}, late \in 0..MaxLate}
    \cup {StatusStore(values, <<DefaultIndex>>) :
            values \in UNION {[1..n -> FalsyValues \cup {Letter(1)}] : n \in 1..2}}

(* The sizes requested: none, one, up to more than any small collection
   holds, the default, and one that takes a whole large collection. *)
AnalyzeSampleSizes ==
    {-1, 0, 1, MaxDocs - 1, MaxDocs + 1, DefaultSampleSize, MaxStoredValues + MaxLate}

InitAnalyze ==
    /\ db \in {s \in AnalyzeStores : TRUE}
    /\ file = NoFile
    /\ run = [r \in Runs |-> Idle]
    /\ last = NoLast
    /\ served = 0
    /\ probe = PyNone

NextAnalyze == \E sample_size \in AnalyzeSampleSizes : AnalyzeAlone(S_orders, sample_size)

SpecAnalyze == InitAnalyze /\ [][NextAnalyze]_vars

(* C11: an analysis that returns reports as total_documents the number N of
   documents of the collection and as sampled_documents the smaller of the
   requested size and N; for N = 0 its fields and indexes are empty and no
   sampling call was issued to the store. *)
C11_CountsAndEmptyCollection ==
    (probe.k = "analysis" /\ probe.sample_size >= 0 /\ ~probe.v.raised) =>
       LET N == Len(db[probe.collection_name].docs)
       IN  /\ probe.v.total_documents = N
           /\ probe.v.sampled_documents = (IF probe.sample_size < N THEN probe.sample_size ELSE N)
           /\ probe.v.sampled_documents = Len(probe.documents)
           /\ N = 0 => /\ probe.v.fields = PyDict(<<>>)
                       /\ probe.v.indexes = <<>>
                       /\ \A i \in DOMAIN probe.calls : probe.calls[i] # "aggregate"

(* Two of three documents were asked for and analysed. *)
C11_Witness ==
    /\ probe.k = "analysis"
    /\ ~probe.v.raised
    /\ Len(db[probe.collection_name].docs) = 3
    /\ probe.sample_size = 2
    /\ probe.v.sampled_documents = 2
    /\ probe.v.total_documents = 3

(* An empty collection was analysed with a positive size. *)
C11_WitnessEmpty ==
    /\ probe.k = "analysis"
    /\ Len(db[probe.collection_name].docs) = 0
    /\ probe.sample_size > 0
    /\ probe.calls = <<"count_documents">>

(* The values of status in the sampled documents, None left out, and those
   of them that are strings (not dates). *)
SampledStatus ==
    SelectSeq([i \in DOMAIN probe.documents |-> GetOr(probe.documents[i].v, S_status, PyNone)],
              LAMBDA value : value.k # "null")
SampledStrings == {value \in SeqToSet(SampledStatus) : _get_type(value) = S_string}

(* Whether string is the most frequent type of the sampled values of
   status, the first type met winning a tie. *)
StatusIsString ==
    /\ SampledStatus # <<>>
    /\ MostCommon(Counter([i \in DOMAIN SampledStatus |-> _get_type(SampledStatus[i])])) = S_string

(* The FieldSchema the analysis returned for status. *)
StatusDef == Get(probe.v.fields.v, S_status).v

(* C12: a field of primary type string whose sampled strings have between 2
   and EnumMax distinct values carries as enum the sorted list of exactly
   those values; a field of another primary type carries no enum. *)
C12_EnumIsSortedDistinctStrings ==
    probe.k = "analysis" =>
       /\ (StatusIsString /\ Cardinality(SampledStrings) > 1 /\ Cardinality(SampledStrings) <= EnumMax) =>
             /\ ~probe.v.raised
             /\ Has(probe.v.fields.v, S_status)
             /\ Has(StatusDef, S_enum)
             /\ Get(StatusDef, S_enum) = PyList(Sorted(SampledStrings))
       /\ ~probe.v.raised =>
             \A i \in DOMAIN probe.v.fields.v :
                Get(probe.v.fields.v[i][2].v, S_type) # PyStr(S_string)
                   => ~Has(probe.v.fields.v[i][2].v, S_enum)

(* C13: a string field whose sampled values have EnumMax + 1 distinct
   values, or exactly one, carries no enum key. *)
C13_NoEnumForElevenOrOne ==
    (probe.k = "analysis" /\ ~probe.v.raised /\ StatusIsString
     /\ Cardinality(SampledStrings) \in {1, EnumMax + 1}) =>
       /\ Has(probe.v.fields.v, S_status)
       /\ ~Has(StatusDef, S_enum)

(* The fields the user indexes of the catalog name, in catalog order. *)
UserIndexFields ==
    LET catalog == SelectSeq(db[probe.collection_name].indexes, LAMBDA info : info.name # S__id_)
    IN  Distinct(Concat([i \in DOMAIN catalog |-> catalog[i].key]))

(* What the index detector returned lists the fields of the user indexes
   and then _id, the default index adding no entry of its own, and holds
   _id as unique. *)
DetectorReportsId ==
    probe.detected # PyNone =>
       /\ KeyList(probe.detected.v) = Distinct(UserIndexFields \o <<S__id>>)
       /\ Get(probe.detected.v, S__id) = PyDict(<< <<S_unique, PyBool(TRUE)>> >>)

(* The analysis lists _id among the indexes, and the FieldSchema of _id,
   when _id was sampled, is flagged indexed and unique. *)
AnalysisReportsId ==
    /\ \E i \in DOMAIN probe.v.indexes : probe.v.indexes[i] = S__id
    /\ Has(probe.v.fields.v, S__id) =>
          /\ GetOr(Get(probe.v.fields.v, S__id).v, S_indexed, PyNone) = PyBool(TRUE)
          /\ GetOr(Get(probe.v.fields.v, S__id).v, S_unique, PyNone) = PyBool(TRUE)

(* C16 as claimed: whatever the catalog holds, the detector reports _id as
   unique and does not enumerate the default index, and every analysed
   collection reports _id as indexed and unique. *)
C16_IdAlwaysIndexedUnique ==
    (probe.k = "analysis" /\ ~probe.v.raised) => (DetectorReportsId /\ AnalysisReportsId)

(* C16 as amended: the same, the analysis reporting _id for every
   collection that holds at least one document; an empty collection is
   reported with no index. *)
C16_IdIndexedUniqueUnlessEmpty ==
    (probe.k = "analysis" /\ ~probe.v.raised) =>
       /\ DetectorReportsId
       /\ Len(db[probe.collection_name].docs) > 0 => AnalysisReportsId
       /\ Len(db[probe.collection_name].docs) = 0 => probe.v.indexes = <<>>

(* A collection with a unique index on status and a default index was
   analysed: status and _id are reported, _id last. *)
C16_Witness ==
    /\ probe.k = "analysis"
    /\ ~probe.v.raised
    /\ db[probe.collection_name].indexes = <<DefaultIndex, StatusIndex>>
    /\ probe.v.indexes = <<S_status, S__id>>
    /\ Has(probe.v.fields.v, S__id)
    /\ Get(probe.detected.v, S__id) = PyDict(<< <<S_unique, PyBool(TRUE)>> >>)

----------------------------------------------------------------------------
(* Customers that hold the orders they take part in (SpecM2M): orders with
   _id 1 and 2, and up to MaxHolders customers whose order_ids is a list of
   order keys, a list with a key no order has, an empty list or a single
   key. *)
MaxHolders == 3
OrderIdsValues ==
    {PyList(<<PyInt(1)>>), PyList(<<PyInt(1), PyInt(2)>>), PyList(<<PyInt(2), PyInt(9)>>),
     PyList(<<>>), PyInt(1)}
M2MStore(values) ==
    (S_orders :> [docs |-> << PyDict(<< <<S__id, PyInt(1)>> >>), PyDict(<< <<S__id, PyInt(2)>> >>) >>,
                  indexes |-> <<DefaultIndex>>])
    @@ (S_customers :> [docs |-> [i \in DOMAIN values |-> CustomerDoc(i, << <<S_order_ids, values[i]>> >>)],
                        indexes |-> <<DefaultIndex>>])

InitM2M ==
    /\ db \in {M2MStore(values) : values \in UNION {[1..n -> OrderIdsValues] : n \in 1..MaxHolders}}
    /\ file = NoFile
    /\ run = [r \in Runs |-> Idle]
    /\ last = NoLast
    /\ served = 0
    /\ probe = PyNone

NextM2M == DetectForeignKeys

SpecM2M == InitM2M /\ [][NextM2M]_vars

(* The type inferred for a field of a collection, as the detector is given
   it. *)
InferredType(collection_name, field_name) ==
    Get(Get(Get(ProbeData(<<S_orders, S_customers>>), collection_name).fields.v, field_name).v, S_type)

(* The values of order_ids the validation checks, read off the store: the
   elements of the lists one by one and a value that is no list as it is,
   CheckLimit at most; and the positions of those that are the _id of an
   order. *)
CheckedOrderIds ==
    LET docs == Collection(db, S_customers).docs
    IN  Take(Concat([i \in DOMAIN docs |->
                       LET x == Get(docs[i].v, S_order_ids)
                       IN  IF x.k = "list" THEN x.v ELSE <<x>>]),
             CheckLimit)
ValidOrderIds ==
    {i \in DOMAIN CheckedOrderIds :
        \E j \in DOMAIN Collection(db, S_orders).docs :
           Get(Collection(db, S_orders).docs[j].v, S__id) = CheckedOrderIds[i]}

(* C14: every emitted relationship has type many-to-many exactly when the
   type inferred for its source field is array, and many-to-one otherwise. *)
C14_TypeFollowsArrayness ==
    probe.k = "fk" =>
       \A i \in DOMAIN probe.v.v :
          LET rel == probe.v.v[i].v
              inferred == InferredType(Get(rel, S_from).v, Get(rel, S_field).v)
          IN  Get(rel, S_type) = PyStr(IF inferred = PyStr(S_array) THEN S_many_to_many
                                       ELSE S_many_to_one)

(* order_ids was inferred an array, all its checked element values are keys
   of orders, and the relationship to orders was emitted as many-to-many. *)
C14_Witness ==
    /\ probe.k = "fk"
    /\ InferredType(S_customers, S_order_ids) = PyStr(S_array)
    /\ Len(CheckedOrderIds) > 1
    /\ Cardinality(ValidOrderIds) = Len(CheckedOrderIds)
    /\ Len(probe.v.v) = 1
    /\ Get(probe.v.v[1].v, S_from) = PyStr(S_customers)
    /\ Get(probe.v.v[1].v, S_to) = PyStr(S_orders)
    /\ Get(probe.v.v[1].v, S_field) = PyStr(S_order_ids)
    /\ Get(probe.v.v[1].v, S_type) = PyStr(S_many_to_many)

----------------------------------------------------------------------------
(* The loader reading the artifact that runs write (SpecLoad).             *)

(* A schema file of the old, one-collection format. *)
OldLegacySchema ==
    PyDict(<< <<S_collection, PyStr(S_legacy)>>, <<S_description, PyStr(<<"o", "l", "d">>)>>,
              <<S_fields, PyDict(<< <<S_name, ManualDef(S_string)>> >>)>> >>)
OldFormatFiles == {<<>>, <<OldLegacySchema>>}

(* SchemaLoader.load_schemas(): at construction, and again whenever the
   artifact was modified since it was last loaded (_should_reload). *)
LoadSchemas(old_files) ==
    /\ \/ probe = PyNone
       \/ probe.k = "loader" /\ probe.source # file /\ file.kind # "missing"
    /\ probe' = [k |-> "loader", source |-> file, schemas |-> load_schemas(file, old_files)]
    /\ UNCHANGED <<db, file, run, last, served>>

(* _should_reload(): the artifact exists and its modification time is
   later than last_load_time. *)
_should_reload(artifact, later) == artifact.kind # "missing" /\ later

(* get_collection_names() of a constructed loader; get_schema,
   get_all_schemas and get_all_schemas_summary begin likewise.  `later`:
   the modification time of the artifact is later than that of the load,
   which takes a write since that load.  probe keeps what the loader held
   before the call and the names the call returned. *)
GetCollectionNames(old_files, later) ==
    /\ probe.k \in {"loader", "getter"}
    /\ later => probe.source # file
    /\ \E reloaded \in {_should_reload(file, later)} :
       \E schemas \in {IF reloaded THEN load_schemas(file, old_files) ELSE probe.schemas} :
          probe' = [k |-> "getter",
                    source |-> IF reloaded THEN file ELSE probe.source,
                    schemas |-> schemas,
                    previous |-> probe.schemas,
                    later |-> later,
                    reloaded |-> reloaded,
                    names |-> get_collection_names(schemas)]
    /\ UNCHANGED <<db, file, run, last, served>>

(* An artifact one of whose field definitions is a bare type name. *)
ArtifactFieldString ==
    Artifact(PyDict(<< <<S_legacy, Entry(PyDict(<< <<S_name, PyStr(S_string)>> >>))>>,
                       <<S_orders, OrdersEntry>> >>))

InitLoad ==
    /\ db \in Stores
    /\ file \in Artifacts \cup {ArtifactFieldString}
    /\ run = [r \in Runs |-> Idle]
    /\ last = NoLast
    /\ served = 0
    /\ probe = PyNone

NextLoad ==
    \/ \E r \in {1} :
          \/ /\ served = 0
             /\ \E names \in RequestLists, size \in SampleSizes, detect \in BOOLEAN, strategy \in Strategies :
                   Request(r, names, size, detect, strategy)
          \/ AnalyzeCollection(r)
          \/ AnalyzeStoreError(r)
          \/ DetectRelationships(r, {}, {})
          \/ MergeWithExisting(r)
          \/ SaveSchemas(r)
          \/ Respond(r)
    \/ \E old_files \in OldFormatFiles : LoadSchemas(old_files)
    \/ \E old_files \in OldFormatFiles, later \in BOOLEAN : GetCollectionNames(old_files, later)

SpecLoad == InitLoad /\ [][NextLoad]_vars

(* The type of a field in a field map, None when the definition has none. *)
TypeIn(fields, field_name) ==
    IF Get(fields, field_name).k = "dict"
    THEN GetOr(Get(fields, field_name).v, S_type, PyNone)
    ELSE PyNone

(* C15: once a run has written the artifact and returned, a loader that
   has loaded the artifact exposes exactly the collection names of its
   collections and, for every field of every collection, the field type the
   run wrote. *)
C15_RoundTrip ==
    \A r \in Runs :
       (run[r].wrote /\ run[r].result # PyNone
        /\ file.kind = "json" /\ probe.k = "loader" /\ probe.source = file) =>
          /\ SeqToSet(get_collection_names(probe.schemas)) = Keys(ArtifactCollections(file))
          /\ \A c \in Keys(ArtifactCollections(file)) :
                LET written == FieldsOf(Get(ArtifactCollections(file), c))
                    exposed == FieldsOf(Get(probe.schemas, c))
                IN  /\ Keys(exposed) = Keys(written)
                    /\ \A f \in Keys(written) : TypeIn(exposed, f) = TypeIn(written, f)

----------------------------------------------------------------------------
(* The schema summary of a generated artifact.  A collection goes through
   generate_schemas([name], sample_size, detect_relationships=False,
   merge_strategy='overwrite'), a SchemaLoader reads what was written and
   get_all_schemas_summary() gives the text QueryGenerator places in its
   prompt.  probe holds that text for db and for a store that differs from
   db in the values of its documents only. *)

(* A value of another document: each letter and each integer replaced,
   the type and the shape kept. *)
RECURSIVE Renamed(_)
Renamed(x) ==
    CASE x.k = "str" -> PyStr([i \in DOMAIN x.v |->
                                 IF x.v[i] \in SeqToSet(LowerCase)
                                 THEN LowerCase[(((CHOOSE j \in DOMAIN LowerCase : LowerCase[j] = x.v[i]) + 12) % 26) + 1]
                                 ELSE x.v[i]])
      [] x.k = "int" -> PyInt(x.v + MaxStoredValues + MaxLate)
      [] x.k = "list" -> PyList([i \in DOMAIN x.v |-> Renamed(x.v[i])])
      [] x.k = "dict" -> PyDict([i \in DOMAIN x.v |-> <<x.v[i][1], Renamed(x.v[i][2])>>])
      [] OTHER -> x
RenamedDocs(docs) == [i \in DOMAIN docs |-> Renamed(docs[i])]
Twin(store) ==
    [name \in DOMAIN store |-> [docs |-> RenamedDocs(store[name].docs),
                                indexes |-> store[name].indexes]]

(* generate_schemas for one collection followed by the loader's summary;
   Raised when the generation or the summary raises. *)
SummaryOfGenerated(store, collection_name, sample_size, documents) ==
    With(analyze_collection(store, collection_name, sample_size, documents),
         LAMBDA analysis :
            IF analysis.raised THEN Raised
            ELSE With(_save_schemas(FinalSchema(<<collection_name>>,
                                                BuildSchemas(<< <<collection_name, analysis>> >>),
                                                PyNone)),
                      LAMBDA saved :
                         IF saved.raised THEN Raised
                         ELSE get_all_schemas_summary(load_schemas(saved.file, <<>>))))

SummarizeGenerated(collection_name, sample_size) ==
    /\ probe = PyNone
    /\ LET docs == Collection(db, collection_name).docs
           n == ActualSampleSize(sample_size, Len(docs))
       IN  \E documents \in Sample(docs, n) :
           \E summary \in {SummaryOfGenerated(db, collection_name, sample_size, documents)} :
           \E twin \in {SummaryOfGenerated(Twin(db), collection_name, sample_size,
                                           RenamedDocs(documents))} :
              probe' = [k |-> "summary",
                        collection_name |-> collection_name,
                        documents |-> documents,
                        v |-> summary,
                        twin |-> twin]
    /\ UNCHANGED <<db, file, run, last, served>>

SummarySampleSizes == {1, DefaultSampleSize}

InitSummary ==
    /\ db \in {s \in AnalyzeStores : Len(s[S_orders].docs) <= MaxDocs}
    /\ file = NoFile
    /\ run = [r \in Runs |-> Idle]
    /\ last = NoLast
    /\ served = 0
    /\ probe = PyNone

NextSummary == \E sample_size \in SummarySampleSizes : SummarizeGenerated(S_orders, sample_size)

SpecSummary == InitSummary /\ [][NextSummary]_vars

(* C17: the summary of the schemas generated from a store equals the
   summary of the schemas generated from a store with the same field names,
   types, array shapes and indexes and other values: no value of a document
   reaches the text. *)
C17_SummaryIndependentOfValues ==
    (probe.k = "summary" /\ probe.v # Raised) => probe.v = probe.twin


----------------------------------------------------------------------------
(* regenerate_schemas.py: regenerate_clean_schemas() lists the collections
   of the database and calls generate_schemas(collections, sample_size=100,
   detect_relationships=True, merge_strategy='overwrite'). *)

(* db.list_collection_names(): the names in an order the store chooses. *)
ListCollectionNames(store) ==
    {names \in [1..Cardinality(DOMAIN store) -> DOMAIN store] :
        \A i, j \in DOMAIN names : i # j => names[i] # names[j]}

RegenerateCleanSchemas(r) ==
    /\ run[r].pc = "idle"
    /\ served = 0
    /\ \E collections \in ListCollectionNames(db) :
          run' = [run EXCEPT ![r] =
             [Idle EXCEPT !.pc = "analyze",
                          !.collection_names = collections,
                          !.sample_size = DefaultSampleSize,
                          !.detect_relationships = TRUE,
                          !.merge_strategy = S_overwrite,
                          !.i = 1,
                          !.before = file,
                          !.prev = last]]
    /\ served' = served + 1
    /\ UNCHANGED <<db, file, last, probe>>

(* `if result['success']` prints the closing report; an exception of
   generate_schemas ends the script with a traceback. *)
RegenerateReport(r) ==
    /\ run[r].pc \in {"returned", "failed"}
    /\ run' = [run EXCEPT ![r] =
          [@ EXCEPT !.pc = "responded",
                    !.response = [status |-> IF run[r].pc = "returned" THEN 0 ELSE 1,
                                  success |-> run[r].pc = "returned"]]]
    /\ UNCHANGED <<db, file, last, served, probe>>

(* Two collections that share no field but _id, none named after the
   other: orders carry status, customers name. *)
StoreUnlinked ==
    (S_orders :> [docs |-> << StatusDoc(1, Letter(1)), StatusDoc(2, Letter(2)), StatusDoc(3, Letter(1)) >>,
                  indexes |-> <<DefaultIndex>>])
    @@ (S_customers :> [docs |-> << CustomerDoc(1, << <<S_name, PyStr(<<"a", "n", "n">>)>> >>),
                                   CustomerDoc(2, <<>>) >>,
                        indexes |-> <<DefaultIndex>>])

(* A single collection: detection is not run. *)
StoreSingle == S_orders :> StoreUnlinked[S_orders]

RegenStores == {StoreLinked, StoreUnlinked, StoreSingle}

InitRegen ==
    /\ db \in RegenStores
    /\ file \in Artifacts
    /\ run = [r \in Runs |-> Idle]
    /\ last = NoLast
    /\ served = 0
    /\ probe = PyNone

NextRegen ==
    \E r \in {1} :
       \/ RegenerateCleanSchemas(r)
       \/ AnalyzeCollection(r)
       \/ AnalyzeStoreError(r)
       \/ DetectRelationships(r, {}, {})
       \/ SaveSchemas(r)
       \/ RegenerateReport(r)

SpecRegen == InitRegen /\ [][NextRegen]_vars

(* The field definitions of the artifact: <<collection, field, definition>>. *)
PersistedFieldDefs ==
    IF file.kind # "json" THEN {}
    ELSE LET collections == Get(file.root.v, S_collections).v
         IN  UNION {{<<collections[i][1], item[1], item[2]>> :
                        item \in SeqToSet(Get(collections[i][2].v, S_fields).v)} :
                    i \in DOMAIN collections}

(* C18: when regenerate_clean_schemas has completed successfully no field
   definition of the persisted artifact has an example or an enum key. *)
C18_RegeneratedArtifactIsStructural ==
    (run[1].pc = "responded" /\ run[1].response.success) =>
       \A def \in PersistedFieldDefs :
          ~Has(def[3].v, S_example) /\ ~Has(def[3].v, S_enum)

(* The relationships block of the artifact a run has written. *)
WroteRelationships ==
    /\ run[1].wrote
    /\ run[1].result # PyNone
    /\ file.kind = "json"
    /\ Has(file.root.v, S_relationships)
RelationshipsBlock == Get(file.root.v, S_relationships).v

(* C20: a relationships block in the artifact a run wrote carries
   description, foreign_keys, correlations, links and example_queries; links
   are the foreign keys followed by the correlations, and there are two
   example queries for each of the first ExampleLimit findings of either
   kind; so also when nothing was detected. *)
C20_RelationshipsBlockComplete ==
    WroteRelationships =>
       /\ \A key \in {S_description, S_foreign_keys, S_correlations, S_links, S_example_queries} :
             Has(RelationshipsBlock, key)
       /\ LET foreign_keys == Get(RelationshipsBlock, S_foreign_keys).v
              correlations == Get(RelationshipsBlock, S_correlations).v
          IN  /\ Get(RelationshipsBlock, S_links).v = foreign_keys \o correlations
              /\ Len(Get(RelationshipsBlock, S_example_queries).v)
                   = 2 * Min(Len(foreign_keys), ExampleLimit) + 2 * Min(Len(correlations), ExampleLimit)
              /\ \A i \in DOMAIN Get(RelationshipsBlock, S_example_queries).v :
                    Get(RelationshipsBlock, S_example_queries).v[i].k = "str"


----------------------------------------------------------------------------
(* Merge runs from a well-formed artifact (Spec).                          *)

(* A run with merge_strategy 'merge' has returned and the artifact it
   started from was well-formed. *)
MergedFromWellFormed(r) ==
    /\ run[r].pc = "returned"
    /\ run[r].merge_strategy = S_merge
    /\ WellFormed(run[r].before)

(* The fields persisted for collection c before run r, none when the
   artifact did not have the collection. *)
FieldsBefore(r, c) ==
    IF Has(ArtifactCollections(run[r].before), c)
    THEN FieldsOf(Get(ArtifactCollections(run[r].before), c))
    ELSE <<>>

(* C19: after a successful merge run that started from a well-formed
   artifact the artifact is well-formed again and holds every collection it
   held before and every collection the run analysed; every field
   definition persisted before the run is there unchanged, whether or not
   the run inferred the field; every field only the run inferred is there
   with the inferred definition.  A sequence of such runs keeps this from
   run to run. *)
C19_MergeKeepsPersistedAddsFresh ==
    \A r \in Runs :
       MergedFromWellFormed(r) =>
          /\ WellFormed(file)
          /\ (Keys(ArtifactCollections(run[r].before)) \cup SeqToSet(run[r].collection_names))
                \subseteq Keys(ArtifactCollections(file))
          /\ \A c \in Keys(ArtifactCollections(run[r].before)) :
                \A f \in Keys(FieldsBefore(r, c)) :
                   /\ Has(FieldsOf(Get(ArtifactCollections(file), c)), f)
                   /\ Get(FieldsOf(Get(ArtifactCollections(file), c)), f) = Get(FieldsBefore(r, c), f)
          /\ \A c \in SeqToSet(run[r].collection_names) :
                \A f \in Keys(FieldsOf(Get(run[r].fresh.v, c))) \ Keys(FieldsBefore(r, c)) :
                   /\ Has(FieldsOf(Get(ArtifactCollections(file), c)), f)
                   /\ Get(FieldsOf(Get(ArtifactCollections(file), c)), f)
                        = Get(FieldsOf(Get(run[r].fresh.v, c)), f)

(* A merge run of orders has returned, started from an artifact that held
   legacy and orders: customer_id kept its persisted definition although
   the run inferred another, name was persisted only, status was inferred
   only. *)
C19_Witness ==
    \E r \in Runs :
       /\ MergedFromWellFormed(r)
       /\ run[r].collection_names = <<S_orders>>
       /\ Has(ArtifactCollections(run[r].before), S_legacy)
       /\ Has(ArtifactCollections(file), S_legacy)
       /\ LET fresh == FieldsOf(Get(run[r].fresh.v, S_orders))
              now == FieldsOf(Get(ArtifactCollections(file), S_orders))
          IN  /\ Has(fresh, S_customer_id)
              /\ Has(FieldsBefore(r, S_orders), S_customer_id)
              /\ Get(fresh, S_customer_id) # Get(FieldsBefore(r, S_orders), S_customer_id)
              /\ Get(now, S_customer_id) = Get(FieldsBefore(r, S_orders), S_customer_id)
              /\ Has(FieldsBefore(r, S_orders), S_name) /\ ~Has(fresh, S_name) /\ Has(now, S_name)
              /\ Has(fresh, S_status) /\ ~Has(FieldsBefore(r, S_orders), S_status)
              /\ Get(now, S_status) = Get(fresh, S_status)


----------------------------------------------------------------------------
(* The correlation detector on up to MaxContributing collections that all
   hold the indexed string field tracking_id (SpecCorrMany). *)
MaxContributing == 8
CollName(j) == <<"c">> \o IntToStr(j)
TrackingValue(i) == PyStr(<<"t">> \o IntToStr(i))
Unmatched == PyStr(<<"z", "z">>)

(* The first collection holds the values 1..held, one per document.  Of
   the others the first `full` hold the same documents, the next holds the
   values 1..extra, and each further one a single value the first
   collection does not have. *)
ManyStore(k, held, full, extra) ==
    [name \in {CollName(j) : j \in 1..k} |->
       LET j == CHOOSE i \in 1..k : CollName(i) = name
       IN  Tracked(IF j = 1 \/ j - 1 <= full THEN [i \in 1..held |-> TrackingValue(i)]
                   ELSE IF j - 1 = full + 1 /\ extra > 0 THEN [i \in 1..extra |-> TrackingValue(i)]
                   ELSE <<Unmatched>>)]
HeldSizes == {1, 2, 3, 15, CorrelationLimit + 1}
ManyStores ==
    {ManyStore(k, held, full, extra) :
        k \in {2, 3, MaxContributing}, held \in HeldSizes,
        full \in 0..MaxContributing, extra \in 0..CorrelationLimit}

(* _detect_correlation_fields on the analyses of all collections of the
   store, analysed in the order of their names. *)
DetectCorrelationsOfAll ==
    /\ probe = PyNone
    /\ \E collection_names \in {[j \in 1..Cardinality(DOMAIN db) |-> CollName(j)]} :
          probe' = [k |-> "corrmany",
                    collection_names |-> collection_names,
                    v |-> _detect_correlation_fields(db, ProbeData(collection_names), {})]
    /\ UNCHANGED <<db, file, run, last, served>>

InitCorrMany ==
    /\ db \in ManyStores
    /\ file = NoFile
    /\ run = [r \in Runs |-> Idle]
    /\ last = NoLast
    /\ served = 0
    /\ probe = PyNone

NextCorrMany == DetectCorrelationsOfAll

SpecCorrMany == InitCorrMany /\ [][NextCorrMany]_vars

(* The values of tracking_id sampled from the first collection, the number
   of documents of the other collections that hold one of them, and the
   number of checks: sampled values times other collections. *)
SampledTracking ==
    LET docs == db[probe.collection_names[1]].docs
    IN  {Get(docs[i].v, S_tracking_id) : i \in 1..Min(Len(docs), CorrelationLimit)}
TrackingMatches ==
    Cardinality({<<j, i>> \in (2..Len(probe.collection_names)) \X (1..(CorrelationLimit + 1)) :
                    /\ i <= Len(db[probe.collection_names[j]].docs)
                    /\ Get(db[probe.collection_names[j]].docs[i].v, S_tracking_id) \in SampledTracking})
TrackingChecks == Cardinality(SampledTracking) * (Len(probe.collection_names) - 1)

(* C21: for tracking_id, held by every collection, a correlation is emitted
   exactly when matches / (sampled values x other collections) is above
   0.5, and it carries all the collections, that confidence to two
   decimals and the number of matches. *)
C21_CorrelationIffConfidenceAboveHalf ==
    probe.k = "corrmany" =>
       /\ (probe.v.v # <<>>) <=> (2 * TrackingMatches > TrackingChecks)
       /\ \A i \in DOMAIN probe.v.v :
             /\ Get(probe.v.v[i].v, S_field) = PyStr(S_tracking_id)
             /\ Get(probe.v.v[i].v, S_collections)
                  = PyList([j \in DOMAIN probe.collection_names |-> PyStr(probe.collection_names[j])])
             /\ Get(probe.v.v[i].v, S_confidence) = PyFloat(Round2(TrackingMatches, TrackingChecks))
             /\ Get(probe.v.v[i].v, S_sample_overlap) = PyInt(TrackingMatches)


----------------------------------------------------------------------------
(* When relationship detection runs (Spec).                                *)

(* Run r is past the place of the detection call. *)
PastDetection(r) == run[r].pc \in {"merge", "save", "returned"}

(* Run r called detect_relationships: it holds what the call returned. *)
DetectionRan(r) == run[r].relationships # PyNone

(* C22: detection has run exactly when detect_relationships was true and
   more than one collection was requested; it ran with every requested
   collection analysed and the artifact not yet written by the run.  A run
   that did not detect issued no validation query, wrote an artifact without
   a relationships block, returned None as relationships and 0 as
   relationships_found; a run that did wrote the block it computed. *)
C22_DetectionRunsIffRequestedForSeveral ==
    \A r \in Runs :
       PastDetection(r) =>
          /\ DetectionRan(r) <=> (run[r].detect_relationships /\ Len(run[r].collection_names) > 1)
          /\ Keys(run[r].collections_data) = SeqToSet(run[r].collection_names)
          /\ run[r].pc # "returned" => ~run[r].wrote
          /\ ~DetectionRan(r) => run[r].validations = [fk |-> {}, corr |-> {}]
          /\ (run[r].pc = "returned" /\ ~DetectionRan(r)) =>
                /\ ~Has(file.root.v, S_relationships)
                /\ run[r].result.relationships = PyNone
                /\ run[r].result.stats.relationships_found = 0
          /\ (run[r].pc = "returned" /\ DetectionRan(r)) =>
                /\ Has(file.root.v, S_relationships)
                /\ Get(file.root.v, S_relationships) = run[r].relationships

(* A run of two collections with detect_relationships false has returned:
   the validations detection would have made were not issued and the
   artifact has no relationships block. *)
C22_Witness ==
    \E r \in Runs :
       /\ run[r].pc = "returned"
       /\ ~run[r].detect_relationships
       /\ Len(run[r].collection_names) = 2
       /\ FkValidations(run[r].collections_data) # {}
       /\ run[r].validations.fk = {}
       /\ ~DetectionRan(r)
       /\ ~Has(file.root.v, S_relationships)

(* A run asked to detect relationships for two collections has returned
   and the artifact holds the block it computed. *)
C22_WitnessRan ==
    \E r \in Runs :
       /\ run[r].pc = "returned"
       /\ Len(run[r].collection_names) = 2
       /\ DetectionRan(r)
       /\ Get(file.root.v, S_relationships) = run[r].relationships


----------------------------------------------------------------------------
(* Foreign-key candidates and their targets (SpecTarget): the first phase
   of detect_relationships up to the call of _validate_relationship, on
   stores whose first collection holds one field beside _id. *)
MaxKnown == 2
TargetBases == {<<>>, <<"b", "o", "x">>, <<"b", "o", "x", "e", "s">>, <<"o", "r", "d", "e", "r">>, <<"o", "r", "d", "e", "r", "s">>}
TargetEndings == {<<"_", "i", "d">>, <<"_", "i", "d", "s">>, <<"_", "r", "e", "f">>, <<"_", "k", "e", "y">>, <<"_", "I", "D">>, <<"_", "K", "e", "y">>, <<"_", "i", "d", "x">>, <<"i", "d">>, <<"_", "i">>}
TargetFieldNames == {base \o ending : base \in TargetBases, ending \in TargetEndings} \ {<<>>, S__id}
KnownPool == {<<"b", "o", "x">>, <<"b", "o", "x", "s">>, <<"b", "o", "x", "e">>, <<"b", "o", "x", "e", "s">>, <<"o", "r", "d", "e", "r">>, <<"o", "r", "d", "e", "r", "s">>, <<"s">>, <<"e", "s">>}
KnownLists ==
    {names \in UNION {[1..n -> KnownPool] : n \in 1..MaxKnown} :
        \A i, j \in DOMAIN names : i # j => names[i] # names[j]}
TargetStore(names, field_name) ==
    [name \in SeqToSet(names) |->
       [docs |-> << PyDict(<< <<S__id, PyInt(1)>> >>
                           \o (IF name = names[1] THEN << <<field_name, PyInt(1)>> >> ELSE <<>>)) >>,
        indexes |-> <<DefaultIndex>>]]

(* The candidates of phase 1 for the collections in the given order. *)
FindTargets(collection_names) ==
    /\ probe = PyNone
    /\ SeqToSet(collection_names) = DOMAIN db
    /\ \E cands \in {FkCandidates(ProbeData(collection_names))} :
          probe' = [k |-> "targets",
                    collection_names |-> collection_names,
                    v |-> cands]
    /\ UNCHANGED <<db, file, run, last, served>>

InitTarget ==
    /\ db \in {TargetStore(names, field_name) : names \in KnownLists, field_name \in TargetFieldNames}
    /\ file = NoFile
    /\ run = [r \in Runs |-> Idle]
    /\ last = NoLast
    /\ served = 0
    /\ probe = PyNone

NextTarget == \E collection_names \in KnownLists : FindTargets(collection_names)

SpecTarget == InitTarget /\ [][NextTarget]_vars

(* The suffix a name ends with, case ignored; the name without it; the
   five names tried for it in order, <<>> where a variant does not exist. *)
MatchedSuffixes(name) ==
    {suffix \in {S__id, S__ids, S__ref, S__key} :
        /\ Len(name) >= Len(suffix)
        /\ \A i \in DOMAIN suffix : ToLower(name[Len(name) - Len(suffix) + i]) = suffix[i]}
BaseOf(name) ==
    LET suffix == CHOOSE x \in MatchedSuffixes(name) : TRUE
    IN  [i \in 1..(Len(name) - Len(suffix)) |-> name[i]]
Tried(base) ==
    << base,
       Append(base, "s"),
       IF base # <<>> /\ base[Len(base)] = "s" THEN SubSeq(base, 1, Len(base) - 1) ELSE <<>>,
       base \o <<"e", "s">>,
       IF Len(base) >= 2 /\ base[Len(base) - 1] = "e" /\ base[Len(base)] = "s"
       THEN SubSeq(base, 1, Len(base) - 2) ELSE <<>> >>
ExpectedTarget(name, known) ==
    IF MatchedSuffixes(name) = {} THEN <<>>
    ELSE LET tried == Tried(BaseOf(name))
         IN  IF \E i \in 1..5 : tried[i] \in known
             THEN tried[CHOOSE i \in 1..5 : tried[i] \in known /\ \A j \in 1..(i - 1) : tried[j] \notin known]
             ELSE <<>>

(* The fields of the store, each with the collection that holds it. *)
StoreFields ==
    UNION {{<<name, key>> : key \in Keys(db[name].docs[1].v)} : name \in DOMAIN db}

(* C23: a field goes to validation exactly when its name ends, case
   ignored, with _id, _ids, _ref or _key and one of base, base+s, base
   less a final s, base+es, base less a final es is a known collection;
   its target is the first of these that is one. *)
C23_CandidateAndTarget ==
    probe.k = "targets" =>
       /\ \A field \in StoreFields :
             LET expected == ExpectedTarget(field[2], DOMAIN db)
                 found == {i \in DOMAIN probe.v : probe.v[i].source = field[1] /\ probe.v[i].field = field[2]}
             IN  IF expected = <<>> THEN found = {}
                 ELSE /\ Cardinality(found) = 1
                      /\ \A i \in found : probe.v[i].target = expected
       /\ \A i \in DOMAIN probe.v : <<probe.v[i].source, probe.v[i].field>> \in StoreFields

(* boxes_id was resolved to boxe, the third name tried, although box, the
   fifth, is a collection too. *)
C23_Witness ==
    /\ probe.k = "targets"
    /\ DOMAIN db = {<<"b", "o", "x", "e">>, <<"b", "o", "x">>}
    /\ \E i \in DOMAIN probe.v :
          /\ probe.v[i].field = <<"b", "o", "x", "e", "s", "_", "i", "d">>
          /\ probe.v[i].target = <<"b", "o", "x", "e">>

(* A field named with capitals, box_ID, was resolved to boxes. *)
C23_WitnessCase ==
    /\ probe.k = "targets"
    /\ \E i \in DOMAIN probe.v :
          /\ probe.v[i].field = <<"b", "o", "x", "_", "I", "D">>
          /\ probe.v[i].target = <<"b", "o", "x", "e", "s">>


----------------------------------------------------------------------------
(* The example of a field (SpecAnalyze).                                   *)

(* The sampled values of status that _collect_field_stats stores: strings,
   integers, booleans and arrays, in the order sampled. *)
StorableStatus ==
    SelectSeq(SampledStatus, LAMBDA value : _get_type(value) \in {S_string, S_integer, S_boolean, S_array})

(* C24: the definition of an analysed field carries as example the first
   of its sampled values that is a string, an integer, a boolean or an
   array, whatever that value; it has no example only when none of its
   sampled values is one. *)
C24_ExampleIsFirstStorableValue ==
    (probe.k = "analysis" /\ ~probe.v.raised /\ Has(probe.v.fields.v, S_status)) =>
       IF StorableStatus = <<>> THEN ~Has(StatusDef, S_example)
       ELSE /\ Has(StatusDef, S_example)
            /\ Get(StatusDef, S_example) = StorableStatus[1]


(* status is a string field of which a sampled value is an integer, a
   boolean or an array. *)
MixedStringField ==
    /\ probe.k = "analysis"
    /\ probe.sample_size >= 0
    /\ StatusIsString
    /\ \E i \in DOMAIN SampledStatus : _get_type(SampledStatus[i]) \in {S_integer, S_boolean, S_array}

(* C25: the analysis of a collection whose string field status also holds
   integers, booleans or arrays completes; the field has an enum exactly
   when its sampled strings have more than one and at most EnumMax distinct
   values, and every element of the enum is one of those strings. *)
C25_EnumOfMixedFieldUsesStringsOnly ==
    MixedStringField =>
       /\ ~probe.v.raised
       /\ Has(StatusDef, S_enum) <=>
             (Cardinality(SampledStrings) > 1 /\ Cardinality(SampledStrings) <= EnumMax)
       /\ Has(StatusDef, S_enum) =>
             \A i \in DOMAIN Get(StatusDef, S_enum).v : Get(StatusDef, S_enum).v[i] \in SampledStrings


----------------------------------------------------------------------------
(* The type of a field (SpecTypes): analyze_collection on collections whose
   status holds values of every kind _get_type tells apart. *)
MaxTyped == 3
IsoDateString == PyStr(<<"2", "0", "2", "4", "-", "0", "1", "-", "0", "2", "T", "0", "3", ":", "0", "4", ":", "0", "5", "Z">>)
PlainDateString == PyStr(<<"2", "0", "2", "4", "-", "0", "1", "-", "0", "2", " ", "0", "3", ":", "0", "4", ":", "0", "5">>)
KindValues ==
    {PyNone, PyBool(TRUE), PyInt(1), PyFloat(150), Letter(1), IsoDateString, PlainDateString,
     PyList(<<PyInt(1)>>), PyDict(<< <<S_name, PyInt(1)>> >>), ObjectId(<<"a">>),
     PyDatetime(0), PyOther}
FrequentKinds == {PyNone, PyBool(FALSE), PyInt(1), Letter(1)}
TypeStores ==
    {StatusStore(values, <<DefaultIndex>>) :
        values \in UNION {[1..n -> KindValues] : n \in 1..2}}
    \cup {StatusStore(values, <<DefaultIndex>>) : values \in [1..MaxTyped -> FrequentKinds]}

InitTypes ==
    /\ db \in TypeStores
    /\ file = NoFile
    /\ run = [r \in Runs |-> Idle]
    /\ last = NoLast
    /\ served = 0
    /\ probe = PyNone

NextTypes == AnalyzeAlone(S_orders, DefaultSampleSize)

SpecTypes == InitTypes /\ [][NextTypes]_vars

(* The tag the precedence gives a value of each kind. *)
TagOfKind ==
    [null |-> S_null, bool |-> S_boolean, int |-> S_integer, float |-> S_number,
     list |-> S_array, dict |-> S_object, oid |-> S_objectId, datetime |-> S_date,
     other |-> S_unknown]
StartsLikeIsoDate(chars) ==
    /\ Len(chars) >= 19
    /\ \A i \in 1..19 :
          IF i \in {5, 8} THEN chars[i] = "-"
          ELSE IF i = 11 THEN chars[i] = "T"
          ELSE IF i \in {14, 17} THEN chars[i] = ":"
          ELSE chars[i] \in {"0", "1", "2", "3", "4", "5", "6", "7", "8", "9"}
ExpectedTag(value) ==
    IF value.k = "str" THEN (IF StartsLikeIsoDate(value.v) THEN S_date ELSE S_string)
    ELSE TagOfKind[value.k]

(* The tags of the sampled non-null values of status, in the order
   sampled, and the tag that is most frequent among them, the one met
   first among equally frequent ones. *)
SampledTags == [i \in DOMAIN SampledStatus |-> ExpectedTag(SampledStatus[i])]
TagCount(tag) == Cardinality({i \in DOMAIN SampledTags : SampledTags[i] = tag})
FirstOf(tag) == CHOOSE i \in DOMAIN SampledTags : SampledTags[i] = tag /\ \A j \in 1..(i - 1) : SampledTags[j] # tag
IsPrimaryTag(tag) ==
    /\ tag \in SeqToSet(SampledTags)
    /\ \A other \in SeqToSet(SampledTags) :
          \/ TagCount(other) < TagCount(tag)
          \/ TagCount(other) = TagCount(tag) /\ FirstOf(tag) <= FirstOf(other)

(* C26: the type of status in a completed analysis is the tag given by the
   precedence null, boolean, integer, number, date or string, array,
   object, objectId, date, unknown that is most frequent among the sampled
   non-null values, the first met among equally frequent ones; True and
   False count as boolean, never as integer. *)
C26_TypeIsMostFrequentTag ==
    (probe.k = "analysis" /\ ~probe.v.raised /\ SampledStatus # <<>>) =>
       /\ Has(probe.v.fields.v, S_status)
       /\ Get(StatusDef, S_type).k = "str"
       /\ IsPrimaryTag(Get(StatusDef, S_type).v)

(* Of three sampled values the first is a string and the two others are
   booleans: the field is boolean. *)
C26_Witness ==
    /\ probe.k = "analysis"
    /\ ~probe.v.raised
    /\ Len(SampledStatus) = 3
    /\ SampledStatus[1].k = "str" /\ SampledStatus[2].k = "bool" /\ SampledStatus[3].k = "bool"
    /\ Get(StatusDef, S_type) = PyStr(S_boolean)

(* Two sampled values of different tags, a date string first: the tie goes
   to date. *)
C26_WitnessTie ==
    /\ probe.k = "analysis"
    /\ ~probe.v.raised
    /\ Len(SampledStatus) = 2
    /\ SampledStatus[1] = IsoDateString /\ SampledStatus[2].k = "int"
    /\ Get(StatusDef, S_type) = PyStr(S_date)


----------------------------------------------------------------------------
(* Reloading (SpecLoad).                                                   *)

(* A getter was called with the artifact modified later than the last
   load, and the artifact is still the one the call met. *)
CalledAfterRewrite ==
    /\ probe.k = "getter"
    /\ probe.later
    /\ file.kind = "json"
    /\ probe.reloaded => probe.source = file

(* C27: a getter called after the artifact was rewritten reloads it and
   returns exactly the collections of the artifact; no collection the
   loader held before and the artifact lacks is among them. *)
C27_GetterReloadsRewrittenArtifact ==
    CalledAfterRewrite =>
       /\ probe.reloaded
       /\ SeqToSet(probe.names) = Keys(ArtifactCollections(file))
       /\ \A c \in Keys(probe.previous) \ Keys(ArtifactCollections(file)) : c \notin SeqToSet(probe.names)

(* C28: the handler has responded to a request whose collections all exist.
   When generate_schemas returned its result after writing the artifact the
   response is that result, a success with status 200; the response is a
   failure only when generate_schemas raised. *)
C28_EndpointRespondsWithRunResult ==
    \A r \in Runs :
       (run[r].pc = "responded" /\ run[r].collection_names # <<>>) =>
          /\ (run[r].wrote /\ run[r].result # PyNone) =>
                (run[r].response.success /\ run[r].response.status = 200)
          /\ ~run[r].response.success => run[r].raised # "none"

(* C29: a run that failed while analysing a collection or while detecting
   relationships has written nothing, and the artifact is what it was when
   the run began. *)
C29_FailureBeforeSaveWritesNothing ==
    \A r \in Runs :
       run[r].raised \in {"analyze", "detect"} =>
          /\ ~run[r].wrote
          /\ file = run[r].before

(* The second collection of a run failed after the first had been analysed,
   an artifact being present. *)
C29_Witness ==
    \E r \in Runs :
       /\ run[r].raised = "analyze"
       /\ run[r].pc = "failed"
       /\ Len(run[r].collection_names) = 2
       /\ Len(run[r].collections_data) = 1
       /\ file.kind = "json"
       /\ file = run[r].before

(* The artifact holds a relationships block. *)
HasRelationshipsBlock(f) ==
    f.kind = "json" /\ f.root.k = "dict" /\ Has(f.root.v, S_relationships)

(* C30: after a run that wrote the artifact and returned its result, the
   relationships block of the artifact is the one that run computed, and
   there is none when that run computed none, whatever the artifact held
   before. *)
C30_RelationshipsBlockIsOfThisRun ==
    \A r \in Runs :
       (run[r].wrote /\ run[r].result # PyNone) =>
          IF Truthy(run[r].relationships)
          THEN HasRelationshipsBlock(file)
               /\ Get(file.root.v, S_relationships) = run[r].relationships
          ELSE ~HasRelationshipsBlock(file)

(* A merge run of a single collection has returned; the artifact it met
   held a relationships block and the artifact it wrote holds none. *)
C30_Witness ==
    \E r \in Runs :
       /\ run[r].wrote /\ run[r].result # PyNone
       /\ run[r].merge_strategy = S_merge
       /\ Len(run[r].collection_names) = 1
       /\ HasRelationshipsBlock(run[r].before)
       /\ ~HasRelationshipsBlock(file)

====
